---- MODULE Spec2Model ----
(***************************************************************************)
(* diskmgt: the drive registry (storage.js), the device scan (detect.js),  *)
(* the registry view (display.js), auto-registration (autoregister.js)     *)
(* and the interactive menu (index.js) that drives them.                   *)
(*                                                                         *)
(* Timestamps are the integer value of the clock when `new Date()` is      *)
(* evaluated; strings are the strings of the program.  JavaScript's null   *)
(* and undefined property values are the string Null.                      *)
(***************************************************************************)
EXTENDS Integers, Sequences, FiniteSets, TLC

VARIABLES
    file,       \* the backing file ~/.config/diskmgt/drives.json
    clock,      \* the system clock read by new Date()
    plugged,    \* the physical drives attached to the machine
    pc,         \* the prompt the menu loop is waiting at
    detected,   \* handler local: result of detect.detectDrives()
    known,      \* handler local: result of storage.getAllDrives()
    cand,       \* handler local: unregistered / autoRegistered / choices
    sel,        \* handler local: selectedDrive (a sequence of 0 or 1 items)
    scanAt,     \* the clock value when the handler's scan was taken
    scanOk,     \* whether the last lsblk query succeeded
    view,       \* rows of the last registry table printed by displayDriveList
    ret,        \* outcome of the last storage call made from outside the menu
    calls,      \* log of the addDrive calls made from outside the menu
    procs,      \* the addDrive call of each of the processes running side by side
    probe,      \* a drive and its detailed info given to the labeler, and the result
    job         \* the search or disk operation in progress: its inputs, the answers
                \* given to its prompts, the external commands it ran, its result

vars == <<file, clock, plugged, pc, detected, known, cand, sel, scanAt, scanOk,
          view, ret, calls, procs, probe, job>>

(***************************************************************************)
(* Bounds of the model.                                                    *)
(***************************************************************************)
MaxClock == 1

Null == "null"

(***************************************************************************)
(* The block devices lsblk can report.  Each physical drive is one tree of *)
(* the `blockdevices` array of `lsblk --json`.                             *)
(***************************************************************************)
Leaf(name, type, uuid, mountpoint) ==
    [name |-> name, type |-> type, uuid |-> uuid, mountpoint |-> mountpoint,
     children |-> <<>>]

DriveA ==
    [name |-> "sda", type |-> "disk", uuid |-> Null, mountpoint |-> Null,
     children |-> << Leaf("sda1", "part", "abc-123", "/mnt/usb") >>]

\* its partition carries no filesystem UUID
DriveB ==
    [name |-> "sdb", type |-> "disk", uuid |-> Null, mountpoint |-> Null,
     children |-> << Leaf("sdb1", "part", Null, Null) >>]

\* a block-for-block clone of DriveA: the same filesystem UUID on another device
DriveC ==
    [name |-> "sdc", type |-> "disk", uuid |-> Null, mountpoint |-> Null,
     children |-> << Leaf("sdc1", "part", "abc-123", Null) >>]

\* a loop device carrying a partition table
Loop0 ==
    [name |-> "loop0", type |-> "loop", uuid |-> Null, mountpoint |-> Null,
     children |-> << Leaf("loop0p1", "part", "fff-000", Null) >>]

Removable == <<DriveA, DriveB, DriveC>>

DriveIds == 1..Len(Removable)

RECURSIVE SelectSeq2(_, _, _)
SelectSeq2(s, ids, i) ==
    IF i > Len(s) THEN <<>>
    ELSE (IF i \in ids THEN <<s[i]>> ELSE <<>>) \o SelectSeq2(s, ids, i + 1)

\* the parsed `blockdevices` array for the drives attached right now
lsblk(attached) == SelectSeq2(Removable, attached, 1) \o <<Loop0>>

DeviceNames == {"sda", "sda1", "sdb", "sdb1", "sdc", "sdc1", "loop0", "loop0p1"}

(***************************************************************************)
(* detect.js                                                               *)
(***************************************************************************)
NoUuidKey(name) == "NO-UUID-" \o name

IsPlaceholder(uuid) == \E n \in DeviceNames : uuid = NoUuidKey(n)

\* `device.uuid || `NO-UUID-${name}``
NodeUuid(device) == IF device.uuid = Null THEN NoUuidKey(device.name) ELSE device.uuid

\* the object pushed by processDrive
Node(device) ==
    [name       |-> device.name,
     type       |-> device.type,
     mountpoint |-> IF device.mountpoint = Null THEN "not mounted" ELSE device.mountpoint,
     uuid       |-> NodeUuid(device),
     device     |-> "/dev/" \o device.name]

RECURSIVE processDrive(_)
RECURSIVE processAll(_, _)
\* processDrive(device): the nodes it pushes, in push order
processDrive(device) ==
    IF device.type # "disk" /\ device.type # "part" THEN <<>>
    ELSE <<Node(device)>> \o processAll(device.children, 1)

\* devices.forEach(d => processDrive(d)) from index i on
processAll(devices, i) ==
    IF i > Len(devices) THEN <<>>
    ELSE processDrive(devices[i]) \o processAll(devices, i + 1)

\* detectDrives without the catch's `return []`: the nodes are returned whatever
\* became of the query
detectDrivesNoCatch(attached, ok) == processAll(lsblk(attached), 1)

\* detectDrives(): ok is whether execSync('lsblk ...') and JSON.parse succeed
detectDrives(attached, ok) ==
    IF ok THEN processAll(lsblk(attached), 1) ELSE <<>>

(***************************************************************************)
(* storage.js.  The backing file is [kind, drives]: kind "nodir" (no       *)
(* configuration directory), "absent" (the directory without the           *)
(* file), "json" ({drives: [...]}), "garbage" (text JSON.parse rejects),   *)
(* "nodrives" (the JSON object {}), "jsonnull" (the JSON text null).       *)
(* drives is the array of a "json" file and <<>> otherwise.                *)
(***************************************************************************)
FileKinds == {"nodir", "absent", "json", "garbage", "nodrives", "jsonnull"}

\* a property whose value is undefined
Undefined == "undefined"

\* JSON.parse(JSON.stringify(obj)) of one record: a property whose value is
\* undefined is left out of the text; strings and timestamps come back equal
stringify(obj) ==
    [g \in {h \in DOMAIN obj : \/ h \in {"first_seen", "last_seen"}
                               \/ obj[h] # Undefined} |-> obj[g]]

\* the backing file after fs.writeFileSync(DRIVES_FILE, JSON.stringify(data))
JsonFile(drives) ==
    [kind |-> "json", drives |-> [i \in 1..Len(drives) |-> stringify(drives[i])]]

AbsentFile == [kind |-> "absent", drives |-> <<>>]

\* initStorage(): writes {drives: []} when the file does not exist
\* neither the configuration directory nor the backing file exists
NoDir == [kind |-> "nodir", drives |-> <<>>]

\* initStorage writing the empty collection whether or not the file exists
initStorageReset(f) == JsonFile(<<>>)

\* initStorage(): mkdirSync when the directory is missing, then the empty
\* collection written when the file is missing
initStorage(f) ==
    LET d == IF f.kind = "nodir" THEN AbsentFile ELSE f IN
    IF d.kind = "absent" THEN JsonFile(<<>>) ELSE d

\* JSON.parse(fs.readFileSync(DRIVES_FILE)) throws a SyntaxError
ParseThrows(f) == f.kind = "garbage"

\* evaluating `.drives` on the parsed value throws a TypeError (value null)
DrivesThrows(f) == f.kind = "jsonnull"

\* `.drives` of the parsed value is undefined
DrivesUndefined(f) == f.kind = "nodrives"

\* index of the first element with this uuid (Array.prototype.find / some), 0 if none
FindIndex(drives, uuid) ==
    IF \E i \in 1..Len(drives) : drives[i].uuid = uuid
    THEN CHOOSE i \in 1..Len(drives) :
            /\ drives[i].uuid = uuid
            /\ \A j \in 1..(i - 1) : drives[j].uuid # uuid
    ELSE 0

RECURSIVE FilterOut(_, _)
\* drives.filter(d => d.uuid !== uuid)
FilterOut(drives, uuid) ==
    IF drives = <<>> THEN <<>>
    ELSE (IF Head(drives).uuid # uuid THEN <<Head(drives)>> ELSE <<>>)
         \o FilterOut(Tail(drives), uuid)

\* the outcome of a storage call: the file it leaves and what it returns.
\* out is "true", "false", "undefined", "array", "record", "number" or "threw";
\* rows carries a returned array or record, n a returned number.
Outcome(f, out, rows, n) == [file |-> f, out |-> out, rows |-> rows, n |-> n]

\* getAllDrives()
getAllDrives(f) ==
    LET f1 == initStorage(f) IN
    IF ParseThrows(f1) \/ DrivesThrows(f1) THEN Outcome(f1, "array", <<>>, 0)
    ELSE IF DrivesUndefined(f1) THEN Outcome(f1, "undefined", <<>>, 0)
    ELSE Outcome(f1, "array", f1.drives, 0)

\* getDriveByUUID(uuid)
getDriveByUUID(f, uuid) ==
    LET all == getAllDrives(f) IN
    IF all.out = "undefined" THEN Outcome(all.file, "threw", <<>>, 0)
    ELSE LET i == FindIndex(all.rows, uuid) IN
         IF i = 0 THEN Outcome(all.file, "undefined", <<>>, 0)
         ELSE Outcome(all.file, "record", <<all.rows[i]>>, 0)

\* a record built from the DriveRecord schema alone, every other property of
\* driveData lost
StampSchemaOnly(driveData, timestamp) ==
    [uuid       |-> driveData.uuid,
     label      |-> driveData.label,
     purpose    |-> driveData.purpose,
     device     |-> driveData.device,
     first_seen |-> timestamp,
     last_seen  |-> timestamp]

\* the object addDrive pushes: {...driveData, first_seen, last_seen}, every
\* property of driveData spread and the two timestamps set last
Stamp(driveData, timestamp) ==
    [g \in DOMAIN driveData \cup {"first_seen", "last_seen"} |->
        IF g \in {"first_seen", "last_seen"} THEN timestamp ELSE driveData[g]]

\* addDrive without the existence check keeping the old record: an upsert
addDriveUpsert(f, driveData, now) ==
    LET f1 == initStorage(f)
        i == FindIndex(f1.drives, driveData.uuid) IN
    IF ParseThrows(f1) \/ DrivesThrows(f1) \/ DrivesUndefined(f1)
    THEN Outcome(f1, "threw", <<>>, 0)
    ELSE IF i # 0
    THEN Outcome(JsonFile([f1.drives EXCEPT ![i] = Stamp(driveData, now)]), "true", <<>>, 0)
    ELSE Outcome(JsonFile(Append(f1.drives, Stamp(driveData, now))), "true", <<>>, 0)

\* addDrive with unshift in place of push
addDriveUnshift(f, driveData, now) ==
    LET f1 == initStorage(f) IN
    IF ParseThrows(f1) \/ DrivesThrows(f1) \/ DrivesUndefined(f1)
    THEN Outcome(f1, "threw", <<>>, 0)
    ELSE IF FindIndex(f1.drives, driveData.uuid) # 0
    THEN Outcome(f1, "false", <<>>, 0)
    ELSE Outcome(JsonFile(<<Stamp(driveData, now)>> \o f1.drives), "true", <<>>, 0)

\* addDrive(driveData), with new Date() = now
addDrive(f, driveData, now) ==
    LET f1 == initStorage(f) IN
    IF ParseThrows(f1) \/ DrivesThrows(f1) \/ DrivesUndefined(f1)
    THEN Outcome(f1, "threw", <<>>, 0)
    ELSE IF FindIndex(f1.drives, driveData.uuid) # 0
    THEN Outcome(f1, "false", <<>>, 0)
    ELSE Outcome(JsonFile(Append(f1.drives, Stamp(driveData, now))), "true", <<>>, 0)

\* updateLastSeen stamping first_seen as well, as addDrive does
updateLastSeenBoth(f, uuid, now) ==
    LET f1 == initStorage(f) IN
    IF ParseThrows(f1) \/ DrivesThrows(f1) \/ DrivesUndefined(f1)
    THEN Outcome(f1, "threw", <<>>, 0)
    ELSE LET i == FindIndex(f1.drives, uuid) IN
         IF i = 0 THEN Outcome(f1, "undefined", <<>>, 0)
         ELSE Outcome(JsonFile([f1.drives EXCEPT ![i].last_seen = now,
                                                  ![i].first_seen = now]),
                      "undefined", <<>>, 0)

\* updateLastSeen(uuid), with new Date() = now
updateLastSeen(f, uuid, now) ==
    LET f1 == initStorage(f) IN
    IF ParseThrows(f1) \/ DrivesThrows(f1) \/ DrivesUndefined(f1)
    THEN Outcome(f1, "threw", <<>>, 0)
    ELSE LET i == FindIndex(f1.drives, uuid) IN
         IF i = 0 THEN Outcome(f1, "undefined", <<>>, 0)
         ELSE Outcome(JsonFile([f1.drives EXCEPT ![i].last_seen = now]),
                      "undefined", <<>>, 0)

\* drive[field] = value: the property is set, created when the object lacks it
SetProp(obj, field, value) ==
    [g \in DOMAIN obj \cup {field} |-> IF g = field THEN value ELSE obj[g]]

\* updateDriveField creating the record when the uuid is not stored
updateDriveFieldCreate(f, uuid, field, value) ==
    LET f1 == initStorage(f) IN
    IF ParseThrows(f1) \/ DrivesThrows(f1) \/ DrivesUndefined(f1)
    THEN Outcome(f1, "threw", <<>>, 0)
    ELSE LET i == FindIndex(f1.drives, uuid) IN
         IF i = 0
         THEN Outcome(JsonFile(Append(f1.drives,
                         [[uuid |-> uuid, label |-> "", purpose |-> "", device |-> "",
                           first_seen |-> 0, last_seen |-> 0] EXCEPT ![field] = value])),
                      "true", <<>>, 0)
         ELSE Outcome(JsonFile([f1.drives EXCEPT ![i] = SetProp(@, field, value)]),
                      "true", <<>>, 0)

\* updateDriveField(uuid, field, value)
updateDriveField(f, uuid, field, value) ==
    LET f1 == initStorage(f) IN
    IF ParseThrows(f1) \/ DrivesThrows(f1) \/ DrivesUndefined(f1)
    THEN Outcome(f1, "threw", <<>>, 0)
    ELSE LET i == FindIndex(f1.drives, uuid) IN
         IF i = 0 THEN Outcome(f1, "false", <<>>, 0)
         ELSE Outcome(JsonFile([f1.drives EXCEPT ![i] = SetProp(@, field, value)]),
                      "true", <<>>, 0)

\* removeDrive by splice(findIndex(...), 1): index -1 removes the last element
removeDriveSplice(f, uuid) ==
    LET f1 == initStorage(f) IN
    IF ParseThrows(f1) \/ DrivesThrows(f1) \/ DrivesUndefined(f1)
    THEN Outcome(f1, "threw", <<>>, 0)
    ELSE LET i == FindIndex(f1.drives, uuid)
             k == IF i = 0 THEN Len(f1.drives) ELSE i IN
         Outcome(JsonFile([j \in 1..(IF k = 0 THEN 0 ELSE Len(f1.drives) - 1) |->
                              IF j < k THEN f1.drives[j] ELSE f1.drives[j + 1]]),
                 "undefined", <<>>, 0)

\* removeDrive(uuid)
removeDrive(f, uuid) ==
    LET f1 == initStorage(f) IN
    IF ParseThrows(f1) \/ DrivesThrows(f1) \/ DrivesUndefined(f1)
    THEN Outcome(f1, "threw", <<>>, 0)
    ELSE Outcome(JsonFile(FilterOut(f1.drives, uuid)), "undefined", <<>>, 0)

\* countDrives()
countDrives(f) ==
    LET all == getAllDrives(f) IN
    IF all.out = "undefined" THEN Outcome(all.file, "threw", <<>>, 0)
    ELSE Outcome(all.file, "number", <<>>, Len(all.rows))

(***************************************************************************)
(* Calls of the storage module from outside the menu (the test suite's     *)
(* use of it): one action per exported function.                           *)
(***************************************************************************)
TestUUIDs == {"abc-123", "def-456", "test-uuid-12345"}

\* the driveData objects passed to addDrive
DriveInputs ==
    { [uuid |-> "abc-123", label |-> "Test", purpose |-> "Backup", device |-> "/dev/sda1"],
      [uuid |-> "abc-123", label |-> "Clone", purpose |-> "Backup", device |-> "/dev/sdc1"],
      [uuid |-> "def-456", label |-> "Media", purpose |-> "Media", device |-> "/dev/sdb1"],
      [uuid |-> "test-uuid-12345", label |-> "Test Drive", purpose |-> "Testing",
       device |-> "/dev/test"] }

\* the fields the callers of updateDriveField pass (editDrive's choices)
EditFields == {"label", "purpose"}

EditValues == {"Renamed"}

\* what the caller observes of a call: the function, its uuid argument (Null when it
\* has none), what it returned, and the length of a returned array or the number
NoRet == [op |-> "none", arg |-> Null, out |-> "undefined", n |-> 0]

Ret(op, arg, o) ==
    [op |-> op, arg |-> arg, out |-> o.out,
     n |-> IF o.out = "array" THEN Len(o.rows) ELSE o.n]

menuLocals == <<pc, detected, known, cand, sel, scanAt, scanOk, view>>

ApiInitStorage ==
    /\ file' = initStorage(file)
    /\ ret' = [op |-> "initStorage", arg |-> Null, out |-> "undefined", n |-> 0]
    /\ UNCHANGED <<clock, plugged, menuLocals, calls, procs, probe, job>>

ApiGetAllDrives ==
    /\ file' = getAllDrives(file).file
    /\ ret' = Ret("getAllDrives", Null, getAllDrives(file))
    /\ UNCHANGED <<clock, plugged, menuLocals, calls, procs, probe, job>>

ApiGetDriveByUUID(uuid) ==
    /\ file' = getDriveByUUID(file, uuid).file
    /\ ret' = Ret("getDriveByUUID", uuid, getDriveByUUID(file, uuid))
    /\ UNCHANGED <<clock, plugged, menuLocals, calls, procs, probe, job>>

ApiCountDrives ==
    /\ file' = countDrives(file).file
    /\ ret' = Ret("countDrives", Null, countDrives(file))
    /\ UNCHANGED <<clock, plugged, menuLocals, calls, procs, probe, job>>

AddDriveCall(driveData) ==
    /\ file' = addDrive(file, driveData, clock).file
    /\ ret' = Ret("addDrive", driveData.uuid, addDrive(file, driveData, clock))
    /\ UNCHANGED <<clock, plugged, menuLocals>>

ApiAddDrive(driveData) == AddDriveCall(driveData) /\ UNCHANGED <<calls, procs, probe, job>>

ApiUpdateLastSeen(uuid) ==
    /\ file' = updateLastSeen(file, uuid, clock).file
    /\ ret' = Ret("updateLastSeen", uuid, updateLastSeen(file, uuid, clock))
    /\ UNCHANGED <<clock, plugged, menuLocals, calls, procs, probe, job>>

ApiUpdateDriveField(uuid, field, value) ==
    /\ file' = updateDriveField(file, uuid, field, value).file
    /\ ret' = Ret("updateDriveField", uuid, updateDriveField(file, uuid, field, value))
    /\ UNCHANGED <<clock, plugged, menuLocals, calls, procs, probe, job>>

ApiRemoveDrive(uuid) ==
    /\ file' = removeDrive(file, uuid).file
    /\ ret' = Ret("removeDrive", uuid, removeDrive(file, uuid))
    /\ UNCHANGED <<clock, plugged, menuLocals, calls, procs, probe, job>>

\* the processes running the program at the same time, on the same backing file
Procs == {1, 2}

\* a process that has not called addDrive yet
IdleProc == [pc |-> "idle", arg |-> Null, mem |-> <<>>, out |-> "undefined"]

\* time passes; new Date() never goes back
Tick ==
    /\ clock < MaxClock
    /\ clock' = clock + 1
    /\ UNCHANGED <<file, plugged, menuLocals, ret, calls, procs, probe, job>>

\* no drive has been given to the labeler
NoProbe == [pc |-> "none"]

\* no search or disk operation has been started
NoJob == [pc |-> "none"]

Init ==
    /\ probe = NoProbe
    /\ job = NoJob
    /\ file \in {NoDir, AbsentFile, JsonFile(<<>>)}
    /\ clock = 0
    /\ plugged = {}
    /\ pc = "menu"
    /\ detected = <<>>
    /\ known = <<>>
    /\ cand = <<>>
    /\ sel = <<>>
    /\ scanAt = 0
    /\ scanOk = TRUE
    /\ view = <<>>
    /\ ret = NoRet
    /\ calls = <<>>
    /\ procs = [p \in Procs |-> IdleProc]

(***************************************************************************)
(* SpecStore: the storage module driven call by call on the file it        *)
(* maintains itself.                                                       *)
(***************************************************************************)
NextStore ==
    \/ ApiInitStorage
    \/ \E d \in DriveInputs : ApiAddDrive(d)
    \/ \E u \in TestUUIDs : ApiUpdateLastSeen(u)
    \/ \E u \in TestUUIDs, f \in EditFields, v \in EditValues : ApiUpdateDriveField(u, f, v)
    \/ \E u \in TestUUIDs : ApiRemoveDrive(u)
    \/ Tick

SpecStore == Init /\ [][NextStore]_vars

(***************************************************************************)
(* SpecAdds: addDrive calls with pairwise distinct UUIDs on an empty       *)
(* registry, each call logged with its argument, time and return value.    *)
(***************************************************************************)
CalledUUIDs == {calls[i].data.uuid : i \in 1..Len(calls)}

LoggedAddDrive(driveData) ==
    /\ driveData.uuid \notin CalledUUIDs
    /\ AddDriveCall(driveData)
    /\ calls' = Append(calls, [data |-> driveData, at |-> clock, out |-> ret'.out])
    /\ UNCHANGED <<procs, probe, job>>

NextAdds ==
    \/ \E d \in DriveInputs : LoggedAddDrive(d)
    \/ Tick

SpecAdds == Init /\ [][NextAdds]_vars

(***************************************************************************)
(* SpecCorrupt: as SpecStore, with the reads, and with the backing file    *)
(* replaced from outside by content that is not a registry.                *)
(***************************************************************************)
CorruptKinds == {"garbage", "nodrives", "jsonnull"}

Corrupt(kind) ==
    /\ file.kind # kind
    /\ file' = [kind |-> kind, drives |-> <<>>]
    /\ UNCHANGED <<clock, plugged, menuLocals, ret, calls, procs, probe, job>>

NextCorrupt ==
    \/ \E k \in CorruptKinds : Corrupt(k)
    \/ ApiInitStorage
    \/ ApiGetAllDrives
    \/ ApiCountDrives
    \/ \E u \in TestUUIDs : ApiGetDriveByUUID(u)
    \/ \E d \in DriveInputs : ApiAddDrive(d)
    \/ \E u \in TestUUIDs : ApiUpdateLastSeen(u)
    \/ \E u \in TestUUIDs, f \in EditFields, v \in EditValues : ApiUpdateDriveField(u, f, v)
    \/ \E u \in TestUUIDs : ApiRemoveDrive(u)

SpecCorrupt == Init /\ [][NextCorrupt]_vars

(***************************************************************************)
(* SpecRace: two processes call addDrive on the same backing file.  Within *)
(* a process the call runs to completion, but its readFileSync and its     *)
(* writeFileSync are two system calls with no lock on the file between     *)
(* them, so steps of the other process can fall in between.                *)
(***************************************************************************)
\* a write that puts the records of the file it finds before those of data
writeFileSyncMerged(f, data) ==
    JsonFile(f.drives \o SelectSeq(data, LAMBDA d : ~(\E i \in 1..Len(f.drives) :
                                                        f.drives[i].uuid = d.uuid)))

\* fs.writeFileSync(DRIVES_FILE, JSON.stringify(data, null, 2)): the file is
\* replaced as a whole by the collection held in memory
writeFileSync(f, data) == JsonFile(data)

\* addDrive(driveData) of process p up to its writeFileSync: initStorage, the
\* read, the existence check (return false) and the push onto the array in memory
AddDriveRead(p, driveData) ==
    /\ procs[p].pc = "idle"
    /\ LET o == addDrive(file, driveData, clock) IN
          /\ file' = initStorage(file)
          /\ procs' = [procs EXCEPT ![p] =
                          IF o.out = "true"
                          THEN [pc |-> "loaded", arg |-> driveData.uuid,
                                mem |-> o.file.drives, out |-> "undefined"]
                          ELSE [pc |-> "returned", arg |-> driveData.uuid,
                                mem |-> <<>>, out |-> o.out]]
    /\ UNCHANGED <<clock, plugged, menuLocals, ret, calls, probe, job>>

\* addDrive(driveData) of process p from its writeFileSync on: return true
AddDriveWrite(p) ==
    /\ procs[p].pc = "loaded"
    /\ file' = writeFileSync(file, procs[p].mem)
    /\ procs' = [procs EXCEPT ![p].pc = "returned", ![p].out = "true"]
    /\ UNCHANGED <<clock, plugged, menuLocals, ret, calls, probe, job>>

NextRace ==
    \/ \E p \in Procs, d \in DriveInputs : AddDriveRead(p, d)
    \/ \E p \in Procs : AddDriveWrite(p)
    \/ Tick

SpecRace == Init /\ [][NextRace]_vars

(***************************************************************************)
(* display.js                                                              *)
(***************************************************************************)
\* detectedDrives.find(d => d.uuid === uuid): index of the first match
FindNode(nodes, uuid) ==
    CHOOSE i \in 1..Len(nodes) :
        /\ nodes[i].uuid = uuid
        /\ \A j \in 1..(i - 1) : nodes[j].uuid # uuid

\* DriveRow matching the record to a node by device path instead of by uuid
DriveRowByDevice(detectedDrives, drive, index) ==
    LET isConnected == \E i \in 1..Len(detectedDrives) :
                          detectedDrives[i].device = drive.device
    IN
    [index  |-> index,
     label  |-> IF drive.label = "" THEN "Unlabeled" ELSE drive.label,
     status |-> IF isConnected THEN "CONNECTED" ELSE "Offline",
     mount  |-> "N/A"]

\* one row of the table of displayDriveList
DriveRow(detectedDrives, drive, index) ==
    LET detectedUUIDs == {detectedDrives[i].uuid : i \in 1..Len(detectedDrives)}
        isConnected   == drive.uuid \in detectedUUIDs
        found         == detectedDrives[FindNode(detectedDrives, drive.uuid)]
    IN
    [index  |-> index,
     label  |-> IF drive.label = "" THEN "Unlabeled" ELSE drive.label,
     status |-> IF isConnected THEN "CONNECTED" ELSE "Offline",
     mount  |-> IF isConnected /\ found.mountpoint # "not mounted"
                THEN found.mountpoint ELSE "N/A"]

\* displayDriveList listing the connected records first, then the offline ones
displayDriveListConnectedFirst(detectedDrives, knownDrives) ==
    LET IsConn(i) == \E k \in 1..Len(detectedDrives) :
                        detectedDrives[k].uuid = knownDrives[i].uuid
        idx   == [i \in 1..Len(knownDrives) |-> i]
        order == SelectSeq(idx, IsConn) \o SelectSeq(idx, LAMBDA i : ~IsConn(i))
    IN [i \in 1..Len(knownDrives) |-> DriveRow(detectedDrives, knownDrives[order[i]], i)]

\* displayDriveList(detectedDrives, knownDrives): the rows printed (none when the
\* "No drives registered yet" box is printed instead)
displayDriveList(detectedDrives, knownDrives) ==
    [i \in 1..Len(knownDrives) |-> DriveRow(detectedDrives, knownDrives[i], i)]

(***************************************************************************)
(* autoregister.js                                                         *)
(***************************************************************************)
\* Text the program takes apart character by character is a sequence of
\* one-character strings; Str gives the string of a text.
RECURSIVE Str(_)
Str(t) == IF t = <<>> THEN "" ELSE Head(t) \o Str(Tail(t))

LowerCase == <<"a", "b", "c", "d", "e", "f", "g", "h", "i", "j", "k", "l", "m",
               "n", "o", "p", "q", "r", "s", "t", "u", "v", "w", "x", "y", "z">>

UpperCase == <<"A", "B", "C", "D", "E", "F", "G", "H", "I", "J", "K", "L", "M",
               "N", "O", "P", "Q", "R", "S", "T", "U", "V", "W", "X", "Y", "Z">>

Digits == {"0", "1", "2", "3", "4", "5", "6", "7", "8", "9"}

\* the characters the class \s matches
WhiteSpace == {" ", "\t", "\n"}

\* String.prototype.toLowerCase
toLowerCase(t) ==
    [i \in 1..Len(t) |->
        IF \E k \in 1..Len(UpperCase) : UpperCase[k] = t[i]
        THEN LowerCase[CHOOSE k \in 1..Len(UpperCase) : UpperCase[k] = t[i]]
        ELSE t[i]]

\* String.prototype.includes
includes(t, pattern) ==
    \E i \in 0..(Len(t) - Len(pattern)) :
        \A j \in 1..Len(pattern) : t[i + j] = pattern[j]

\* String.prototype.trim
RECURSIVE trim(_)
trim(t) ==
    IF t = <<>> THEN <<>>
    ELSE IF Head(t) \in WhiteSpace THEN trim(Tail(t))
    ELSE IF t[Len(t)] \in WhiteSpace THEN trim(SubSeq(t, 1, Len(t) - 1))
    ELSE t

\* String.prototype.substring(0, n)
substring(t, n) == SubSeq(t, 1, IF Len(t) < n THEN Len(t) ELSE n)

\* .replace(/\([^)]*\)/g, ''): each '(' up to the first ')' after it is removed
RECURSIVE RemoveParentheses(_)
RemoveParentheses(t) ==
    IF t = <<>> THEN <<>>
    ELSE IF Head(t) = "(" /\ \E j \in 2..Len(t) : t[j] = ")"
    THEN LET j == CHOOSE j \in 2..Len(t) :
                     t[j] = ")" /\ \A k \in 2..(j - 1) : t[k] # ")"
         IN RemoveParentheses(SubSeq(t, j + 1, Len(t)))
    ELSE <<Head(t)>> \o RemoveParentheses(Tail(t))

\* .replace(/\s+/g, '-'): each run of white space becomes one dash
RECURSIVE SpacesToDash(_)
SpacesToDash(t) ==
    IF t = <<>> THEN <<>>
    ELSE IF Head(t) \in WhiteSpace
    THEN IF Len(t) > 1 /\ t[2] \in WhiteSpace
         THEN SpacesToDash(Tail(t))
         ELSE <<"-">> \o SpacesToDash(Tail(t))
    ELSE <<Head(t)>> \o SpacesToDash(Tail(t))

\* .replace(/[^a-zA-Z0-9-_]/g, '-')
SanitizeName(t) ==
    [i \in 1..Len(t) |->
        IF \/ \E k \in 1..Len(LowerCase) : t[i] = LowerCase[k] \/ t[i] = UpperCase[k]
           \/ t[i] \in Digits
           \/ t[i] \in {"-", "_"}
        THEN t[i] ELSE "-"]

\* .replace(/\./g, '')
RemoveDots(t) == SelectSeq(t, LAMBDA c : c # ".")

\* path.basename(p): trailing slashes dropped, then what follows the last slash
RECURSIVE basename(_)
basename(t) ==
    IF t = <<>> THEN <<>>
    ELSE IF t[Len(t)] = "/" THEN basename(SubSeq(t, 1, Len(t) - 1))
    ELSE IF \E i \in 1..Len(t) : t[i] = "/"
    THEN LET i == CHOOSE i \in 1..Len(t) :
                     t[i] = "/" /\ \A k \in (i + 1)..Len(t) : t[k] # "/"
         IN SubSeq(t, i + 1, Len(t))
    ELSE t

\* The arguments of generateSmartLabel and detectPurpose.  drive is a node of
\* the scan with mountpoint, model and size as text, and with what the two
\* commands the functions run on it give: blkid (`blkid -s LABEL -o value
\* <device>`) and ls (`ls -1 <mountpoint> | head -10`), each [ok, out], ok
\* FALSE when execSync throws.  detailedInfo is the result of
\* diskinfo.getDetailedDiskInfo: lxdInfo is a sequence of no (null) or one
\* record, osType of an osInfo entry is text.
\* Keyword matching the whole text instead of a part of it
KeywordWholeText(t, words) == t \in words

\* t.includes(w1) || t.includes(w2) || ...
Keyword(t, words) == \E w \in words : includes(t, w)

\* generateSmartLabel with the mount point consulted before the storage pool
generateSmartLabelMountFirst(drive, detailedInfo) ==
    IF /\ drive.mountpoint # <<>> /\ Str(drive.mountpoint) # "not mounted"
       /\ basename(drive.mountpoint) # <<>>
    THEN Str(SanitizeName(basename(drive.mountpoint)))
    ELSE IF detailedInfo.lxdInfo # <<>> /\ detailedInfo.lxdInfo[1].isLXD
    THEN IF Len(detailedInfo.lxdInfo[1].pools) > 0
         THEN "LXD-" \o detailedInfo.lxdInfo[1].pools[1].name
         ELSE "LXD-Storage"
    ELSE "Boot-Drive"

\* generateSmartLabel(drive, detailedInfo)
generateSmartLabel(drive, detailedInfo) ==
    LET lxdInfo   == detailedInfo.lxdInfo
        osInfo    == detailedInfo.osInfo
        osType    == osInfo[1].osType
        osName    == substring(SpacesToDash(RemoveParentheses(osType)), 20)
        mountName == basename(drive.mountpoint)
        label     == trim(drive.blkid.out)
    IN
    \* Priority 1: LXD Storage
    IF lxdInfo # <<>> /\ lxdInfo[1].isLXD
    THEN IF Len(lxdInfo[1].pools) > 0
         THEN "LXD-" \o lxdInfo[1].pools[1].name
         ELSE "LXD-Storage"
    \* Priority 2: OS Installation
    ELSE IF /\ Len(osInfo) > 0
            /\ osType # <<>> /\ Str(osType) # "Unknown"
            /\ ~includes(osType, <<"U", "n", "k", "n", "o", "w", "n">>)
    THEN Str(osName)
    \* Priority 3: Boot partition
    ELSE IF detailedInfo.bootable /\ Len(detailedInfo.bootPartitions) > 0
    THEN "Boot-Drive"
    \* Priority 4: Mount point
    ELSE IF /\ drive.mountpoint # <<>> /\ Str(drive.mountpoint) # "not mounted"
            /\ mountName # <<>> /\ Str(mountName) # "/"
    THEN Str(SanitizeName(mountName))
    ELSE IF /\ drive.mountpoint # <<>> /\ Str(drive.mountpoint) # "not mounted"
            /\ Str(drive.mountpoint) = "/"
    THEN "Root-System"
    \* Priority 5: Filesystem label
    ELSE IF drive.fstype \in {"vfat", "ntfs"} /\ drive.blkid.ok /\ label # <<>>
    THEN Str(substring(SpacesToDash(label), 20))
    \* Priority 6: Model name
    ELSE IF /\ drive.model # <<>> /\ Str(drive.model) # "Unknown Model"
            /\ Str(drive.model) # "unknown"
    THEN Str(substring(SpacesToDash(drive.model), 20))
    \* Fallback: Device name + size
    ELSE drive.name \o "-" \o Str(RemoveDots(drive.size))

\* detectPurpose(drive, detailedInfo)
detectPurpose(drive, detailedInfo) ==
    LET lxdInfo == detailedInfo.lxdInfo
        mounted == drive.mountpoint # <<>> /\ Str(drive.mountpoint) # "not mounted"
        mount   == toLowerCase(drive.mountpoint)
        dirs    == trim(drive.ls.out)
        containerCount == Len(lxdInfo[1].containers)
    IN
    IF lxdInfo # <<>> /\ lxdInfo[1].isLXD
    THEN IF containerCount > 0
         THEN "LXD Storage (" \o ToString(containerCount) \o " containers)"
         ELSE "LXD Storage"
    ELSE IF Len(detailedInfo.osInfo) > 0 THEN "Operating System"
    ELSE IF detailedInfo.bootable THEN "System Boot"
    ELSE IF mounted /\ Keyword(mount, {<<"b", "a", "c", "k", "u", "p">>,
                                       <<"t", "i", "m", "e", "s", "h", "i", "f", "t">>})
    THEN "Backup"
    ELSE IF mounted /\ Keyword(mount, {<<"m", "e", "d", "i", "a">>,
                                       <<"v", "i", "d", "e", "o", "s">>,
                                       <<"m", "u", "s", "i", "c">>})
    THEN "Media Storage"
    ELSE IF mounted /\ Keyword(mount, {<<"d", "a", "t", "a">>,
                                       <<"s", "t", "o", "r", "a", "g", "e">>})
    THEN "Data Storage"
    ELSE IF mounted /\ Keyword(mount, {<<"p", "r", "o", "j", "e", "c", "t">>,
                                       <<"d", "e", "v">>})
    THEN "Development"
    ELSE IF mounted /\ Str(mount) = "/" THEN "System Root"
    ELSE IF drive.fstype = "swap" THEN "Swap Memory"
    ELSE IF mounted /\ drive.ls.ok
            /\ Keyword(dirs, {<<"b", "a", "c", "k", "u", "p">>,
                              <<"B", "a", "c", "k", "u", "p">>})
    THEN "Backup Storage"
    ELSE IF mounted /\ drive.ls.ok
            /\ Keyword(dirs, {<<"M", "e", "d", "i", "a">>, <<"m", "e", "d", "i", "a">>})
    THEN "Media Storage"
    ELSE IF mounted /\ drive.ls.ok
            /\ Keyword(dirs, {<<"D", "o", "c", "u", "m", "e", "n", "t", "s">>,
                              <<"d", "o", "c", "u", "m", "e", "n", "t", "s">>})
    THEN "Document Storage"
    ELSE "General Storage"

\* the mountpoint of a node that is not mounted: device.mountpoint || 'not mounted'
NotMounted == <<"n", "o", "t", " ", "m", "o", "u", "n", "t", "e", "d">>

\* diskinfo.getDetailedDiskInfo(devicePath) for the parent disk of a partition of
\* the catalogue: sdb and sdc carry a partition with the boot flag, sda carries
\* nothing the probe recognises
getDetailedDiskInfo(drive) ==
    IF drive.name \in {"sdb1", "sdc1"}
    THEN [lxdInfo |-> <<>>, osInfo |-> <<>>, bootable |-> TRUE, bootPartitions |-> << 1 >>]
    ELSE [lxdInfo |-> <<>>, osInfo |-> <<>>, bootable |-> FALSE, bootPartitions |-> <<>>]

\* a node of the scan as the labeler reads it: the characters of its mount point,
\* and the size, filesystem, model and command output of the catalogue's drives
ProbeDrive(drive) ==
    [name       |-> drive.name,
     size       |-> <<"1", "4", ".", "9", "G", "B">>,
     device     |-> drive.device,
     mountpoint |-> IF drive.mountpoint = "/mnt/usb"
                    THEN <<"/", "m", "n", "t", "/", "u", "s", "b">>
                    ELSE NotMounted,
     fstype     |-> "ext4",
     model      |-> <<"U", "n", "k", "n", "o", "w", "n", " ", "M", "o", "d", "e", "l">>,
     blkid      |-> [ok |-> TRUE, out |-> <<>>],
     ls         |-> [ok |-> TRUE, out |-> <<>>]]

\* const label = generateSmartLabel(drive, detailedInfo)
ProbeLabel(drive) == generateSmartLabel(ProbeDrive(drive), getDetailedDiskInfo(drive))

\* const purpose = detectPurpose(drive, detailedInfo)
ProbePurpose(drive) == detectPurpose(ProbeDrive(drive), getDetailedDiskInfo(drive))

\* autoRegisterDrive(drive)
autoRegisterDrive(drive) ==
    [uuid    |-> drive.uuid,
     label   |-> ProbeLabel(drive),
     purpose |-> ProbePurpose(drive),
     device  |-> drive.device]

RECURSIVE UnregisteredAnyType(_, _)
\* Unregistered without the filter on d.type === 'part'
UnregisteredAnyType(detectedDrives, knownDrives) ==
    IF detectedDrives = <<>> THEN <<>>
    ELSE LET d == Head(detectedDrives) IN
         (IF ~(\E k \in 1..Len(knownDrives) : knownDrives[k].uuid = d.uuid)
          THEN <<d>> ELSE <<>>)
         \o UnregisteredAnyType(Tail(detectedDrives), knownDrives)

RECURSIVE Unregistered(_, _)
\* detectedDrives.filter(d => d.type === 'part').filter(d => !knownUUIDs.has(d.uuid))
Unregistered(detectedDrives, knownDrives) ==
    IF detectedDrives = <<>> THEN <<>>
    ELSE LET d == Head(detectedDrives) IN
         (IF d.type = "part" /\ ~(\E k \in 1..Len(knownDrives) : knownDrives[k].uuid = d.uuid)
          THEN <<d>> ELSE <<>>)
         \o Unregistered(Tail(detectedDrives), knownDrives)

RECURSIVE RegisterEach(_, _)
\* unregistered.forEach: autoRegisterDrive, skipped for the drives (fails) on
\* which it throws
RegisterEach(unregistered, fails) ==
    IF unregistered = <<>> THEN <<>>
    ELSE (IF Head(unregistered).name \in fails THEN <<>>
          ELSE <<autoRegisterDrive(Head(unregistered))>>)
         \o RegisterEach(Tail(unregistered), fails)

\* autoRegisterAll(detectedDrives, knownDrives)
autoRegisterAll(detectedDrives, knownDrives, fails) ==
    RegisterEach(Unregistered(detectedDrives, knownDrives), fails)

(***************************************************************************)
(* SpecLabel: generateSmartLabel and detectPurpose applied to one drive     *)
(* and one detailed-info record, drawn from the combinations below.        *)
(***************************************************************************)
\* drive.mountpoint: 'not mounted', the root, and mount paths as lsblk prints them
ProbeMountpoints ==
    { NotMounted,
      <<"/">>,
      <<"/", "m", "n", "t", "/", "u", "s", "b", " ", "1">>,
      <<"/", "m", "e", "d", "i", "a", "/", "B", "a", "c", "k", "u", "p">>,
      <<"/", "s", "r", "v", "/", "d", "e", "v", "-", "d", "a", "t", "a">>,
      <<"/", "m", "e", "d", "i", "a", "/", "d", "a", "t", "a">>,
      <<"/", "h", "o", "m", "e", "/", "p", "r", "o", "j", "e", "c", "t", "s">>,
      <<"[", "S", "W", "A", "P", "]">> }

\* osInfo[0].osType as diskinfo.detectOS sets it: the PRETTY_NAME of
\* /etc/os-release, 'Linux (Unknown Distribution)', or 'Unknown' with boot files
ProbeOsInfo ==
    { <<>>,
      << [osType |-> <<"U", "b", "u", "n", "t", "u", " ", "2", "2", ".", "0", "4", " ", "(", "J", "a", "m", "m", "y", ")", " ", "L", "T", "S">>] >>,
      << [osType |-> <<"U", "n", "k", "n", "o", "w", "n">>] >>,
      << [osType |-> <<"L", "i", "n", "u", "x", " ", "(", "U", "n", "k", "n", "o", "w", "n", " ", "D", "i", "s", "t", "r", "i", "b", "u", "t", "i", "o", "n", ")">>] >>,
      << [osType |-> <<"(", "c", "u", "s", "t", "o", "m", ")">>] >> }

ProbeLxdInfo ==
    { <<>>,
      << [isLXD |-> FALSE, pools |-> <<>>, containers |-> <<>>] >>,
      << [isLXD |-> TRUE, pools |-> <<>>, containers |-> <<>>] >>,
      << [isLXD |-> TRUE, pools |-> << [name |-> "default"], [name |-> "fast"] >>,
          containers |-> << "web", "db" >>] >> }

\* bootable and bootPartitions: the parted boot flag sets both, a mount below
\* /boot sets bootable alone
ProbeBoot ==
    { [bootable |-> FALSE, bootPartitions |-> <<>>],
      [bootable |-> TRUE, bootPartitions |-> <<>>],
      [bootable |-> TRUE, bootPartitions |-> << 1 >>] }

ProbeFstypes == {"ext4", "vfat", "swap"}

ProbeBlkid ==
    { [ok |-> TRUE, out |-> <<"M", "Y", " ", " ", "D", "I", "S", "K", "\n">>],
      [ok |-> TRUE, out |-> <<>>],
      [ok |-> FALSE, out |-> <<>>] }

ProbeModels == { <<"U", "n", "k", "n", "o", "w", "n", " ", "M", "o", "d", "e", "l">>, <<"S", "a", "n", "D", "i", "s", "k", " ", "U", "l", "t", "r", "a", " ", "U", "S", "B", " ", "3", ".", "0", " ", "F", "l", "a", "s", "h">> }

ProbeLs ==
    { [ok |-> TRUE, out |-> <<"l", "o", "s", "t", "+", "f", "o", "u", "n", "d", "\n", "M", "e", "d", "i", "a", "\n">>],
      [ok |-> TRUE, out |-> <<"D", "o", "c", "u", "m", "e", "n", "t", "s", "\n", "b", "a", "c", "k", "u", "p", "\n">>],
      [ok |-> TRUE, out |-> <<>>],
      [ok |-> FALSE, out |-> <<>>] }

ProbeDrives ==
    { [name |-> "sdb1", size |-> <<"1", "4", ".", "9", "G", "B">>, device |-> "/dev/sdb1",
       mountpoint |-> m, fstype |-> f, model |-> md, blkid |-> b, ls |-> l] :
        m \in ProbeMountpoints, f \in ProbeFstypes, md \in ProbeModels,
        b \in ProbeBlkid, l \in ProbeLs }

ProbeInfos ==
    { [lxdInfo |-> x, osInfo |-> o, bootable |-> b.bootable,
       bootPartitions |-> b.bootPartitions] :
        x \in ProbeLxdInfo, o \in ProbeOsInfo, b \in ProbeBoot }

InitLabel ==
    /\ \E d \in ProbeDrives, i \in ProbeInfos :
          probe = [pc |-> "given", drive |-> d, info |-> i]
    /\ job = NoJob
    /\ file = JsonFile(<<>>)
    /\ clock = 0
    /\ plugged = {}
    /\ pc = "menu"
    /\ detected = <<>>
    /\ known = <<>>
    /\ cand = <<>>
    /\ sel = <<>>
    /\ scanAt = 0
    /\ scanOk = TRUE
    /\ view = <<>>
    /\ ret = NoRet
    /\ calls = <<>>
    /\ procs = [p \in Procs |-> IdleProc]

\* const label = generateSmartLabel(drive, detailedInfo);
\* const purpose = detectPurpose(drive, detailedInfo);
LabelProbe ==
    /\ probe.pc = "given"
    /\ probe' = [pc      |-> "labelled",
                 drive   |-> probe.drive,
                 info    |-> probe.info,
                 label   |-> generateSmartLabel(probe.drive, probe.info),
                 purpose |-> detectPurpose(probe.drive, probe.info)]
    /\ UNCHANGED <<file, clock, plugged, menuLocals, ret, calls, procs, job>>

NextLabel == LabelProbe

SpecLabel == InitLabel /\ [][NextLabel]_vars

(***************************************************************************)
(* index.js: the menu loop.  pc is the prompt the loop waits at; each      *)
(* action is the code run between two prompts.                             *)
(***************************************************************************)
ManualLabels == {"Test"}

ManualPurposes == {"Backup"}

\* back at the main menu prompt: the handler's locals are gone, the screen is cleared
ReturnToMenu ==
    /\ pc' = "menu"
    /\ detected' = <<>>
    /\ known' = <<>>
    /\ cand' = <<>>
    /\ sel' = <<>>
    /\ scanAt' = 0
    /\ scanOk' = TRUE
    /\ view' = <<>>

\* at 'Press Enter to continue...' of a handler that uses none of its locals after it
ToContinue ==
    /\ pc' = "continue"
    /\ detected' = <<>>
    /\ known' = <<>>
    /\ cand' = <<>>
    /\ sel' = <<>>
    /\ scanAt' = 0
    /\ scanOk' = TRUE
    /\ view' = <<>>

\* an exception reaches mainMenu().catch: the error is printed, process.exit(1)
Crash ==
    /\ pc' = "crashed"
    /\ detected' = <<>>
    /\ known' = <<>>
    /\ cand' = <<>>
    /\ sel' = <<>>
    /\ scanAt' = 0
    /\ scanOk' = TRUE
    /\ view' = <<>>

\* mainMenu(): 'Exit', process.exit(0)
Exit ==
    /\ pc = "menu"
    /\ pc' = "exited"
    /\ UNCHANGED <<file, clock, plugged, detected, known, cand, sel, scanAt, scanOk,
                   view, ret, calls, procs, probe, job>>

\* TouchDetected that also drops the records of devices absent from the scan
TouchDetectedPrune(f, nodes, now) ==
    LET f1 == initStorage(f)
        seen == {nodes[k].uuid : k \in 1..Len(nodes)}
    IN JsonFile(SelectSeq([i \in 1..Len(f1.drives) |->
                              [f1.drives[i] EXCEPT !.last_seen = now]],
                          LAMBDA d : d.uuid \in seen))

\* TouchDetected with the test on getDriveByUUID inverted: nothing is touched
TouchDetectedInverted(f, nodes, now) == initStorage(f)

RECURSIVE TouchDetected(_, _, _)
\* detected.forEach(d => { if (storage.getDriveByUUID(d.uuid)) storage.updateLastSeen(d.uuid) })
TouchDetected(f, nodes, now) ==
    IF nodes = <<>> THEN f
    ELSE LET f1 == getDriveByUUID(f, Head(nodes).uuid) IN
         TouchDetected(IF f1.out = "record"
                       THEN updateLastSeen(f1.file, Head(nodes).uuid, now).file
                       ELSE f1.file,
                       Tail(nodes), now)

\* showDrives(), up to its prompt
ShowDrives(ok) ==
    /\ pc = "menu"
    /\ LET det == detectDrives(plugged, ok)
           all == getAllDrives(file)
       IN IF all.out # "array"
          THEN \* drives.find / knownDrives.length of undefined: TypeError
               /\ file' = all.file
               /\ Crash
               /\ UNCHANGED <<cand, sel>>
          ELSE /\ detected' = det
               /\ known' = all.rows
               /\ file' = TouchDetected(all.file, det, clock)
               /\ view' = displayDriveList(det, all.rows)
               /\ scanAt' = clock
               /\ scanOk' = ok
               /\ pc' = "show_prompt"
               /\ UNCHANGED <<cand, sel>>
    /\ UNCHANGED <<clock, plugged, ret, calls, procs, probe, job>>

\* showDrives(): 'Back to main menu'
ShowBack ==
    /\ pc = "show_prompt"
    /\ ReturnToMenu
    /\ UNCHANGED <<file, clock, plugged, ret, calls, procs, probe, job>>

\* addDrive(), up to 'Select drive to register'
AddDriveStart(ok) ==
    /\ pc = "menu"
    /\ LET det == detectDrives(plugged, ok)
           all == getAllDrives(file)
           unregistered == Unregistered(det, all.rows)
       IN /\ file' = all.file
          /\ IF all.out # "array"
             THEN \* known.map of undefined: TypeError
                  Crash
             ELSE /\ detected' = det
                  /\ known' = all.rows
                  /\ cand' = unregistered
                  /\ pc' = IF Len(unregistered) = 0 THEN "add_done" ELSE "add_select"
                  /\ scanAt' = clock
                  /\ scanOk' = ok
                  /\ UNCHANGED <<sel, view>>
    /\ UNCHANGED <<clock, plugged, ret, calls, procs, probe, job>>

\* addDrive(): 'Cancel'
AddCancel ==
    /\ pc = "add_select"
    /\ ReturnToMenu
    /\ UNCHANGED <<file, clock, plugged, ret, calls, procs, probe, job>>

\* addDrive(): 'Auto-register all drives', up to the confirmation of the preview
AddAutoAll(fails) ==
    /\ pc = "add_select"
    /\ LET autoRegistered == autoRegisterAll(cand, known, fails) IN
          /\ cand' = autoRegistered
          /\ pc' = IF Len(autoRegistered) = 0 THEN "add_done" ELSE "add_confirm"
    /\ UNCHANGED <<file, clock, plugged, detected, known, sel, scanAt, scanOk, view,
                   ret, calls, procs, probe, job>>

RECURSIVE AddEach(_, _, _)
\* autoRegistered.forEach(driveData => { if (storage.addDrive(driveData)) successCount++ })
AddEach(f, datas, now) ==
    IF datas = <<>> THEN f
    ELSE AddEach(addDrive(f, Head(datas), now).file, Tail(datas), now)

\* successCount reported as autoRegistered.length, whatever addDrive returned
SuccessCountAll(f, datas, now) == Len(datas)

RECURSIVE SuccessCount(_, _, _)
\* let successCount = 0; ... if (storage.addDrive(driveData)) successCount++
SuccessCount(f, datas, now) ==
    IF datas = <<>> THEN 0
    ELSE (IF addDrive(f, Head(datas), now).out = "true" THEN 1 ELSE 0)
         + SuccessCount(addDrive(f, Head(datas), now).file, Tail(datas), now)

\* addDrive(): the answer to 'Register all N drive(s) with these settings?'; job
\* holds the answer and the count the success message reports
AddConfirm(confirmAll) ==
    /\ pc = "add_confirm"
    /\ IF confirmAll /\ addDrive(file, Head(cand), clock).out = "threw"
       THEN /\ file' = addDrive(file, Head(cand), clock).file
            /\ job' = job
            /\ Crash
       ELSE /\ file' = IF confirmAll THEN AddEach(file, cand, clock) ELSE file
            /\ job' = [pc |-> "auto_all", confirmAll |-> confirmAll,
                       successCount |-> IF confirmAll
                                        THEN SuccessCount(file, cand, clock) ELSE 0]
            /\ pc' = "add_done"
            /\ UNCHANGED <<detected, known, cand, sel, scanAt, scanOk, view>>
    /\ UNCHANGED <<clock, plugged, ret, calls, procs, probe>>

\* addDrive(): a drive of the list is chosen
AddSelect(i) ==
    /\ pc = "add_select"
    /\ sel' = <<cand[i]>>
    /\ pc' = "add_manual"
    /\ UNCHANGED <<file, clock, plugged, detected, known, cand, scanAt, scanOk, view,
                   ret, calls, procs, probe, job>>

\* addDrive(): the manual registration form is answered
AddManual(label, purpose) ==
    /\ pc = "add_manual"
    /\ LET selectedDrive == sel[1]
           driveData == [uuid    |-> selectedDrive.uuid,
                         label   |-> label,
                         purpose |-> purpose,
                         device  |-> selectedDrive.device]
           o == addDrive(file, driveData, clock)
       IN /\ file' = o.file
          /\ IF o.out = "threw"
             THEN Crash
             ELSE /\ pc' = "add_done"
                  /\ UNCHANGED <<detected, known, cand, sel, scanAt, scanOk, view>>
    /\ UNCHANGED <<clock, plugged, ret, calls, procs, probe, job>>

\* 'Press Enter to continue...'
Continue ==
    /\ pc \in {"continue", "add_done", "backup_done"}
    /\ ReturnToMenu
    /\ job' = NoJob
    /\ UNCHANGED <<file, clock, plugged, ret, calls, procs, probe>>

\* editDrive(), up to 'Select drive to edit'
EditDriveStart ==
    /\ pc = "menu"
    /\ LET all == getAllDrives(file) IN
          /\ file' = all.file
          /\ IF all.out # "array"
             THEN \* known.length of undefined: TypeError
                  Crash
             ELSE /\ known' = all.rows
                  /\ pc' = IF Len(all.rows) = 0 THEN "continue" ELSE "edit_select"
                  /\ UNCHANGED <<detected, cand, sel, scanAt, scanOk, view>>
    /\ UNCHANGED <<clock, plugged, ret, calls, procs, probe, job>>

\* editDrive(): 'Cancel' at the drive or at the field prompt
EditCancel ==
    /\ pc = "edit_select"
    /\ ReturnToMenu
    /\ UNCHANGED <<file, clock, plugged, ret, calls, procs, probe, job>>

\* editDrive(): a drive, a field and its new value are given
EditSelect(i, field, newValue) ==
    /\ pc = "edit_select"
    /\ LET selectedDrive == known[i]
           o == updateDriveField(file, selectedDrive.uuid, field, newValue)
       IN /\ file' = o.file
          /\ IF o.out = "threw" THEN Crash ELSE ToContinue
    /\ UNCHANGED <<clock, plugged, ret, calls, procs, probe, job>>

\* removeDrive(), up to 'Select drive to remove'
RemoveDriveStart ==
    /\ pc = "menu"
    /\ LET all == getAllDrives(file) IN
          /\ file' = all.file
          /\ IF all.out # "array"
             THEN \* known.length of undefined: TypeError
                  Crash
             ELSE /\ known' = all.rows
                  /\ pc' = IF Len(all.rows) = 0 THEN "continue" ELSE "remove_select"
                  /\ UNCHANGED <<detected, cand, sel, scanAt, scanOk, view>>
    /\ UNCHANGED <<clock, plugged, ret, calls, procs, probe, job>>

\* removeDrive(): 'Cancel'
RemoveCancel ==
    /\ pc = "remove_select"
    /\ ReturnToMenu
    /\ UNCHANGED <<file, clock, plugged, ret, calls, procs, probe, job>>

\* removeDrive(): a drive is chosen and the confirmation answered
RemoveSelect(i, confirm) ==
    /\ pc = "remove_select"
    /\ LET selectedDrive == known[i]
           o == removeDrive(file, selectedDrive.uuid)
       IN IF confirm
          THEN /\ file' = o.file
               /\ IF o.out = "threw" THEN Crash ELSE ToContinue
          ELSE /\ file' = file
               /\ ToContinue
    /\ UNCHANGED <<clock, plugged, ret, calls, procs, probe, job>>

RECURSIVE Partitions(_)
\* detected.filter(d => d.type === 'part')
Partitions(nodes) ==
    IF nodes = <<>> THEN <<>>
    ELSE (IF Head(nodes).type = "part" THEN <<Head(nodes)>> ELSE <<>>)
         \o Partitions(Tail(nodes))

\* backupRestoreMenu() -> performBackup(), up to 'Select partition to backup'
PerformBackup(ok) ==
    /\ pc = "menu"
    /\ LET det == detectDrives(plugged, ok) IN
          /\ detected' = det
          /\ cand' = Partitions(det)
          /\ pc' = IF Len(Partitions(det)) = 0 THEN "backup_done" ELSE "backup_select"
    /\ scanAt' = clock
    /\ scanOk' = ok
    /\ UNCHANGED <<file, clock, plugged, known, sel, view, ret, calls, procs, probe, job>>

\* what the prompt of performBackup and backup.backupDrive come to: 'Cancel' (or a
\* cancelled method / destination), a backup that fails (backupDrive catches the
\* error and returns null), a backup that is written (backupDrive returns its path)
BackupResults == {"cancel", "failed", "saved"}

\* performBackup(): from the answer to 'Select partition to backup' to its return.
\* With a backup path returned, `chalk.green(...)` is evaluated where no `chalk`
\* is in scope (index.js requires it only inside other functions): ReferenceError.
BackupSelect(result) ==
    /\ pc = "backup_select"
    /\ IF result = "saved" THEN Crash ELSE ToContinue
    /\ UNCHANGED <<file, clock, plugged, ret, calls, procs, probe, job>>

\* a drive is attached to / detached from the machine
Plug(d) ==
    /\ d \notin plugged
    /\ plugged' = plugged \cup {d}
    /\ UNCHANGED <<file, clock, menuLocals, ret, calls, procs, probe, job>>

Unplug(d) ==
    /\ d \in plugged
    /\ plugged' = plugged \ {d}
    /\ UNCHANGED <<file, clock, menuLocals, ret, calls, procs, probe, job>>

Next ==
    \/ \E ok \in BOOLEAN : ShowDrives(ok)
    \/ ShowBack
    \/ \E ok \in BOOLEAN : AddDriveStart(ok)
    \/ AddCancel
    \/ pc = "add_select"
       /\ \E fails \in SUBSET {cand[i].name : i \in 1..Len(cand)} : AddAutoAll(fails)
    \/ \E yes \in BOOLEAN : AddConfirm(yes)
    \/ \E i \in 1..Len(cand) : AddSelect(i)
    \/ \E l \in ManualLabels, p \in ManualPurposes : AddManual(l, p)
    \/ Continue
    \/ EditDriveStart
    \/ EditCancel
    \/ \E i \in 1..Len(known), f \in EditFields, v \in EditValues : EditSelect(i, f, v)
    \/ RemoveDriveStart
    \/ RemoveCancel
    \/ \E i \in 1..Len(known), yes \in BOOLEAN : RemoveSelect(i, yes)
    \/ \E ok \in BOOLEAN : PerformBackup(ok)
    \/ \E r \in BackupResults : BackupSelect(r)
    \/ Exit
    \/ \E d \in DriveIds : Plug(d)
    \/ \E d \in DriveIds : Unplug(d)
    \/ Tick

Spec == Init /\ [][Next]_vars

(***************************************************************************)
(* SpecMenu: the menu loop at one instant of the clock, with the backing   *)
(* file open to replacement from outside, and a user who answers every     *)
(* prompt below the main menu.                                             *)
(***************************************************************************)
\* the choice made at 'What would you like to do?' of mainMenu
MenuChoice ==
    \/ \E ok \in BOOLEAN : ShowDrives(ok)
    \/ \E ok \in BOOLEAN : AddDriveStart(ok)
    \/ EditDriveStart
    \/ RemoveDriveStart
    \/ \E ok \in BOOLEAN : PerformBackup(ok)
    \/ Exit

\* the answer to a prompt of a handler
Answer ==
    \/ ShowBack
    \/ AddCancel
    \/ pc = "add_select"
       /\ \E fails \in SUBSET {cand[i].name : i \in 1..Len(cand)} : AddAutoAll(fails)
    \/ \E yes \in BOOLEAN : AddConfirm(yes)
    \/ \E i \in 1..Len(cand) : AddSelect(i)
    \/ \E l \in ManualLabels, p \in ManualPurposes : AddManual(l, p)
    \/ Continue
    \/ EditCancel
    \/ \E i \in 1..Len(known), f \in EditFields, v \in EditValues : EditSelect(i, f, v)
    \/ RemoveCancel
    \/ \E i \in 1..Len(known), yes \in BOOLEAN : RemoveSelect(i, yes)
    \/ \E r \in BackupResults : BackupSelect(r)

NextMenu ==
    \/ MenuChoice
    \/ Answer
    \/ \E d \in DriveIds : Plug(d)
    \/ \E d \in DriveIds : Unplug(d)
    \/ \E k \in CorruptKinds : Corrupt(k)

SpecMenu == Init /\ [][NextMenu]_vars /\ WF_vars(Answer)

(***************************************************************************)
(* Properties of the storage module                                        *)
(***************************************************************************)
HasUuid(drives, uuid) == \E i \in 1..Len(drives) : drives[i].uuid = uuid

\* C1: in every registry state, addDrive of a record whose uuid is already stored
\* returns false and leaves the stored collection as it was: same length, same
\* order, every field of every record (first_seen and last_seen too) untouched.
C1_AddExistingUuidRejected ==
    \A d \in DriveInputs :
        HasUuid(file.drives, d.uuid) =>
            LET o == addDrive(file, d, clock) IN
            /\ o.out = "false"
            /\ o.file = file
            /\ Len(getAllDrives(o.file).rows) = Len(getAllDrives(file).rows)
            /\ \A i \in 1..Len(file.drives) :
                   getAllDrives(o.file).rows[i] = getAllDrives(file).rows[i]

\* a second add of a stored uuid, carrying another label, has been made and refused
C1_Witness ==
    /\ ret.op = "addDrive" /\ ret.out = "false" /\ ret.arg = "abc-123"
    /\ Len(file.drives) = 2
    /\ file.drives[1].uuid = "abc-123" /\ file.drives[1].label = "Test"
    /\ file.drives[1].last_seen < clock

\* the record the i-th logged call should have stored
ExpectedOfCall(i) ==
    [uuid       |-> calls[i].data.uuid,
     label      |-> calls[i].data.label,
     purpose    |-> calls[i].data.purpose,
     device     |-> calls[i].data.device,
     first_seen |-> calls[i].at,
     last_seen  |-> calls[i].at]

\* C2: after any sequence of addDrive calls with pairwise distinct uuids on an
\* empty registry, every call returned true, getAllDrives returns the records in
\* call order, and getDriveByUUID(u) returns the record added with uuid u,
\* stamped first_seen = last_seen = the time of its add.
C2_DistinctAddsInCallOrder ==
    LET all == getAllDrives(file) IN
    /\ all.out = "array"
    /\ Len(all.rows) = Len(calls)
    /\ \A i \in 1..Len(calls) :
        /\ calls[i].out = "true"
        /\ all.rows[i] = ExpectedOfCall(i)
        /\ getDriveByUUID(file, calls[i].data.uuid).out = "record"
        /\ getDriveByUUID(file, calls[i].data.uuid).rows = <<ExpectedOfCall(i)>>

\* three adds at two different times
C2_Witness ==
    /\ Len(calls) = 3
    /\ calls[1].at < calls[3].at
    /\ calls[1].data.uuid = "test-uuid-12345"
    /\ Len(file.drives) = 3

\* C3: removeDrive(uuid) of a stored record removes exactly that record: the others
\* stay, unchanged and in the same order, and getDriveByUUID(uuid) finds nothing
\* afterwards.  A second removeDrive(uuid), or one of a uuid that is not stored,
\* leaves the collection as it is; neither raises an error.
C3_RemoveExactlyThatRecord ==
    \A u \in TestUUIDs :
        LET before == getAllDrives(file).rows
            o      == removeDrive(file, u)
            after  == getAllDrives(o.file).rows
            again  == removeDrive(o.file, u)
        IN
        /\ o.out = "undefined"
        /\ getDriveByUUID(o.file, u).out = "undefined"
        /\ HasUuid(before, u) =>
              \E i \in 1..Len(before) :
                  /\ before[i].uuid = u
                  /\ Len(after) = Len(before) - 1
                  /\ \A j \in 1..(i - 1) : after[j] = before[j]
                  /\ \A j \in i..Len(after) : after[j] = before[j + 1]
        /\ ~HasUuid(before, u) =>
              /\ Len(after) = Len(before)
              /\ \A j \in 1..Len(before) : after[j] = before[j]
        /\ again.out = "undefined"
        /\ again.file = o.file

\* the middle one of three records has been removed, then removed again
C3_Witness ==
    /\ ret.op = "removeDrive" /\ ret.arg = "def-456"
    /\ Len(file.drives) = 2
    /\ file.drives[1].uuid = "abc-123"
    /\ file.drives[2].uuid = "test-uuid-12345"
    /\ file.drives[1].first_seen < file.drives[2].first_seen

\* C6: updateLastSeen(uuid) of a stored uuid changes only the last_seen of that one
\* record, to a value not below the previous one (the clock never goes back);
\* the record's other fields, the other records and the order stay.  For a uuid
\* that is not stored the collection is left as it is.
C6_TouchChangesOnlyLastSeen ==
    \A u \in TestUUIDs :
        LET before == getAllDrives(file).rows
            o      == updateLastSeen(file, u, clock)
            after  == getAllDrives(o.file).rows
        IN
        /\ o.out = "undefined"
        /\ Len(after) = Len(before)
        /\ \A j \in 1..Len(before) :
            IF before[j].uuid = u
            THEN /\ after[j].last_seen = clock
                 /\ after[j].last_seen >= before[j].last_seen
                 /\ after[j].uuid = before[j].uuid
                 /\ after[j].label = before[j].label
                 /\ after[j].purpose = before[j].purpose
                 /\ after[j].device = before[j].device
                 /\ after[j].first_seen = before[j].first_seen
            ELSE after[j] = before[j]
        /\ ~HasUuid(before, u) => o.file = initStorage(file)

\* a record registered earlier has been touched at a later time, next to another
C6_Witness ==
    /\ ret.op = "updateLastSeen" /\ ret.arg = "def-456"
    /\ Len(file.drives) = 2
    /\ file.drives[2].uuid = "def-456"
    /\ file.drives[2].first_seen < file.drives[2].last_seen
    /\ file.drives[1].last_seen = file.drives[1].first_seen

\* C10: getAllDrives always returns a sequence; when the backing file is not a
\* well-formed registry (unparseable, or JSON without a drives array) the sequence
\* is empty and countDrives returns 0.
C10_GetAllDrivesAlwaysSequence ==
    LET all == getAllDrives(file) IN
    /\ all.out = "array"
    /\ file.kind \in CorruptKinds =>
          /\ all.rows = <<>>
          /\ countDrives(file).out = "number"
          /\ countDrives(file).n = 0

(***************************************************************************)
(* Properties of the menu, the scan and the registry view                  *)
(***************************************************************************)
\* the uuids of the disk and partition nodes of the attached drives
LiveUuids(attached) ==
    UNION { {NodeUuid(Removable[d])}
            \cup {NodeUuid(Removable[d].children[c]) :
                     c \in 1..Len(Removable[d].children)} : d \in attached }

InScan(nodes, uuid) == \E k \in 1..Len(nodes) : nodes[k].uuid = uuid

\* the step is removeDrive's removal, confirmed by the user, of the record uuid
IsConfirmedRemovalOf(uuid) ==
    /\ pc = "remove_select"
    /\ pc' = "continue"
    /\ \E j \in 1..Len(known) : known[j].uuid = uuid
    /\ ~HasUuid(file'.drives, uuid)

\* C4: a stored record stays in the registry, with its uuid, device and first_seen,
\* across every step (scans, plugging and unplugging, show drives with its
\* updateLastSeen calls, edits through updateDriveField, registrations of other
\* drives), whether or not its device is attached; the one step that removes it is
\* the confirmed menu removal of its own uuid.
C4_RecordsPersist ==
    [][\A i \in 1..Len(file.drives) :
          LET r == file.drives[i] IN
          \/ \E j \in 1..Len(file'.drives) :
                /\ file'.drives[j].uuid = r.uuid
                /\ file'.drives[j].device = r.device
                /\ file'.drives[j].first_seen = r.first_seen
                /\ file'.drives[j].last_seen >= r.last_seen
          \/ IsConfirmedRemovalOf(r.uuid)]_vars

\* show drives has listed, as offline, a record whose device is not attached and
\* was not seen since an earlier time
C4_Witness ==
    /\ pc = "show_prompt"
    /\ plugged = {}
    /\ Len(view) = 2
    /\ view[1].status = "Offline" /\ view[2].status = "Offline"
    /\ file.drives[1].last_seen < clock

\* C5: the registry view printed by show drives marks a record connected exactly
\* when its uuid is the uuid of a node of the scan it was given, and so, the scan
\* having succeeded, exactly when a device with that uuid is attached: offline
\* after an unplug, connected again after a replug.
C5_ConnectedIffInScan ==
    [][(pc = "menu" /\ pc' = "show_prompt") =>
          /\ Len(view') = Len(known')
          /\ \A i \in 1..Len(known') :
                /\ (view'[i].status = "CONNECTED") = InScan(detected', known'[i].uuid)
                /\ view'[i].status \in {"CONNECTED", "Offline"}
                /\ scanOk' => ((view'[i].status = "CONNECTED")
                                  = (known'[i].uuid \in LiveUuids(plugged)))]_vars

\* a record seen connected at an earlier show drives is shown offline, its drive
\* being detached, next to one that is connected
C5_Witness ==
    /\ pc = "show_prompt"
    /\ scanOk
    /\ Len(view) = 2
    /\ view[1].status = "Offline"
    /\ known[1].first_seen < known[1].last_seen
    /\ view[2].status = "CONNECTED"

\* the handler entered from the main menu has taken a scan
ScanTaken ==
    /\ pc = "menu"
    /\ pc' \in {"show_prompt", "add_select", "add_done", "backup_select", "backup_done"}

\* C7 as claimed: in every menu action that scans, the records of the devices of
\* the scan get last_seen = the time of the scan.
C7_TouchedByEveryScan ==
    [][ScanTaken =>
          \A i \in 1..Len(file'.drives) :
              InScan(detected', file'.drives[i].uuid) =>
                  file'.drives[i].last_seen = scanAt']_vars

\* C7 amended: in the show drives action, the records of the devices of the scan
\* get last_seen = the time of the action; the records of the other devices, and
\* every record in the scans of add drive and backup, keep their last_seen.
C7_TouchedByShowDrives ==
    [][ScanTaken =>
          /\ Len(file'.drives) = Len(file.drives)
          /\ \A i \in 1..Len(file'.drives) :
                IF pc' = "show_prompt" /\ InScan(detected', file'.drives[i].uuid)
                THEN file'.drives[i].last_seen = scanAt' /\ scanAt' = clock
                ELSE file'.drives[i].last_seen = file.drives[i].last_seen]_vars

\* show drives has touched both records of two attached, registered devices
C7_Witness ==
    /\ pc = "show_prompt"
    /\ Len(file.drives) = 2
    /\ InScan(detected, file.drives[1].uuid) /\ InScan(detected, file.drives[2].uuid)
    /\ file.drives[1].first_seen < scanAt
    /\ file.drives[1].last_seen = scanAt /\ file.drives[2].last_seen = scanAt

\* C8: no stored record has a placeholder NO-UUID-<name> as its uuid.
C8_NoPlaceholderKey ==
    \A i \in 1..Len(file.drives) : ~IsPlaceholder(file.drives[i].uuid)

\* C9: at the end of the add-drive flow every record that was not in the registry
\* when the flow began carries the uuid and device of a partition node of the scan
\* taken when it began, a uuid the registry did not hold then; the candidates
\* offered, and the records previewed by auto-register-all, are partitions of
\* that scan only, never whole disks.
C9_OnlyUnregisteredPartitions ==
    LET IsNewPartition(uuid, device) ==
            /\ ~HasUuid(known, uuid)
            /\ \E k \in 1..Len(detected) :
                  /\ detected[k].type = "part"
                  /\ detected[k].uuid = uuid
                  /\ detected[k].device = device
    IN
    /\ pc \in {"add_select", "add_confirm"} =>
          \A c \in 1..Len(cand) : IsNewPartition(cand[c].uuid, cand[c].device)
    /\ pc = "add_manual" => IsNewPartition(sel[1].uuid, sel[1].device)
    /\ pc \in {"add_select", "add_confirm", "add_manual"} => file.drives = known
    /\ pc = "add_done" =>
          /\ Len(file.drives) >= Len(known)
          /\ \A i \in 1..Len(known) : file.drives[i] = known[i]
          /\ \A i \in (Len(known) + 1)..Len(file.drives) :
                IsNewPartition(file.drives[i].uuid, file.drives[i].device)

\* auto-register-all has registered a partition while its disk, and a registered
\* partition, were in the scan
C9_Witness ==
    /\ pc = "add_done"
    /\ Len(known) = 1
    /\ Len(file.drives) = 2
    /\ InScan(detected, known[1].uuid)
    /\ \E k \in 1..Len(detected) : detected[k].type = "disk"
    /\ file.drives[2].label = "Boot-Drive"

(***************************************************************************)
(* Error handling of the storage module                                    *)
(***************************************************************************)
\* C11: when the backing file is unparseable, each of getAllDrives,
\* getDriveByUUID, addDrive, updateLastSeen, updateDriveField and removeDrive
\* completes without raising an exception.
C11_UnparseableRecoveredLocally ==
    file.kind = "garbage" =>
        /\ getAllDrives(file).out # "threw"
        /\ \A u \in TestUUIDs :
              /\ getDriveByUUID(file, u).out # "threw"
              /\ updateLastSeen(file, u, clock).out # "threw"
              /\ removeDrive(file, u).out # "threw"
              /\ \A fld \in EditFields, v \in EditValues :
                    updateDriveField(file, u, fld, v).out # "threw"
        /\ \A d \in DriveInputs : addDrive(file, d, clock).out # "threw"

\* C12: for a uuid that is not stored in a well-formed registry, getDriveByUUID
\* returns no record, updateDriveField returns false, updateLastSeen and
\* removeDrive return normally, and each leaves the stored collection as it is.
C12_UnknownUuidNoEffect ==
    \A u \in TestUUIDs :
        (file.kind \in {"nodir", "absent", "json"} /\ ~HasUuid(file.drives, u)) =>
            LET before == getAllDrives(file).rows
                Same(o) == /\ o.file = initStorage(file)
                           /\ getAllDrives(o.file).out = "array"
                           /\ getAllDrives(o.file).rows = before
            IN
            /\ getDriveByUUID(file, u).out = "undefined"
            /\ Same(getDriveByUUID(file, u))
            /\ updateLastSeen(file, u, clock).out = "undefined"
            /\ Same(updateLastSeen(file, u, clock))
            /\ removeDrive(file, u).out = "undefined"
            /\ Same(removeDrive(file, u))
            /\ \A fld \in EditFields, v \in EditValues :
                  /\ updateDriveField(file, u, fld, v).out = "false"
                  /\ Same(updateDriveField(file, u, fld, v))

\* updateDriveField of a uuid that is not stored has returned false on a registry
\* of two other records
C12_Witness ==
    /\ ret.op = "updateDriveField" /\ ret.out = "false" /\ ret.arg = "def-456"
    /\ Len(file.drives) = 2
    /\ ~HasUuid(file.drives, "def-456")
    /\ file.drives[1].first_seen < file.drives[2].first_seen

(***************************************************************************)
(* Properties of the menu loop                                             *)
(***************************************************************************)
\* C13: the process ends only through Exit, and from every prompt of a handler
\* (the user answering each prompt) control comes back to the main menu prompt,
\* whatever the outcome of the scan, the registry read or the backup.
C13_AlwaysBackToMenu ==
    /\ [](pc # "crashed")
    /\ (pc \notin {"menu", "exited"}) ~> (pc = "menu")

(***************************************************************************)
(* Properties of the scan                                                  *)
(***************************************************************************)
\* C14: when the lsblk query fails or its output cannot be parsed, detectDrives
\* returns the empty sequence, and the view show drives then prints still has one
\* row per registered record, in the registry's order, each marked offline.
C14_ScanFailureAllOffline ==
    /\ detectDrives(plugged, FALSE) = <<>>
    /\ (pc = "show_prompt" /\ ~scanOk) =>
          /\ detected = <<>>
          /\ Len(view) = Len(file.drives)
          /\ \A i \in 1..Len(file.drives) :
                /\ view[i].index = i
                /\ view[i].label = file.drives[i].label
                /\ view[i].status = "Offline"
                /\ view[i].mount = "N/A"

\* show drives, its scan having failed, lists two records as offline while the
\* device of the first is attached
C14_Witness ==
    /\ pc = "show_prompt"
    /\ ~scanOk
    /\ Len(view) = 2
    /\ file.drives[1].uuid \in LiveUuids(plugged)
    /\ view[1].status = "Offline" /\ view[2].status = "Offline"

RECURSIVE PreOrder(_)
\* every device of a hierarchy, a parent before its children, siblings in order
PreOrder(devices) ==
    IF devices = <<>> THEN <<>>
    ELSE <<Head(devices)>> \o PreOrder(Head(devices).children) \o PreOrder(Tail(devices))

\* the pre-order listing restricted to the kinds disk and part, as scan nodes
DiskAndPartNodes(devices) ==
    LET kept == SelectSeq(PreOrder(devices), LAMBDA d : d.type \in {"disk", "part"})
    IN [i \in 1..Len(kept) |-> Node(kept[i])]

\* C15: the scan result is the pre-order listing of the reported hierarchy
\* restricted to the kinds disk and part: every disk or part node anywhere in the
\* hierarchy once, a parent before its children, no node of another kind.
C15_ScanIsFilteredPreOrder ==
    detectDrives(plugged, TRUE) = DiskAndPartNodes(lsblk(plugged))

(***************************************************************************)
(* Properties of the registry view                                         *)
(***************************************************************************)
\* the sequence back to front
Reverse(q) == [i \in 1..Len(q) |-> q[Len(q) + 1 - i]]

\* the Label column of a record
ShownLabel(drive) == IF drive.label = "" THEN "Unlabeled" ELSE drive.label

\* C16: the rows of the registry view are in the insertion order of the records of
\* the store, whatever the scan: the view show drives printed has row i for
\* record i, and so has the view of the same registry built from the scan of any
\* other set of attached drives, failed or not, with the live nodes in any order.
C16_ViewInInsertionOrder ==
    LET InOrder(v, recs) ==
            /\ Len(v) = Len(recs)
            /\ \A i \in 1..Len(recs) :
                  v[i].index = i /\ v[i].label = ShownLabel(recs[i])
    IN
    pc = "show_prompt" =>
        /\ InOrder(view, file.drives)
        /\ Len(known) = Len(file.drives)
        /\ \A i \in 1..Len(known) : known[i].uuid = file.drives[i].uuid
        /\ InOrder(displayDriveList(detectDrives(plugged, FALSE), known), known)
        /\ \A S \in SUBSET DriveIds :
              /\ InOrder(displayDriveList(detectDrives(S, TRUE), known), known)
              /\ InOrder(displayDriveList(Reverse(detectDrives(S, TRUE)), known), known)

\* show drives has listed the record registered first, offline, above the record
\* registered later, connected, the two carrying different labels
C16_Witness ==
    /\ pc = "show_prompt"
    /\ scanOk
    /\ Len(view) = 2
    /\ file.drives[1].first_seen < file.drives[2].first_seen
    /\ view[1].label # view[2].label
    /\ view[1].label = ShownLabel(file.drives[1])
    /\ view[1].status = "Offline" /\ view[2].status = "CONNECTED"

(***************************************************************************)
(* Properties of concurrent runs                                           *)
(***************************************************************************)
\* both processes have returned true from addDrive calls with different uuids
BothAdded ==
    /\ \A p \in Procs : procs[p].pc = "returned" /\ procs[p].out = "true"
    /\ procs[1].arg # procs[2].arg

\* C17: two addDrive calls with distinct uuids, run by two processes as a read
\* step and a write step with no lock, can both return true and leave one record
\* only.  When both have returned true the file is the collection the later
\* writer held in memory: it holds both records only if one process read after
\* the other had written, and otherwise one record, the other being lost.
C17_LastWriterWins ==
    BothAdded =>
        /\ \A p \in Procs : HasUuid(procs[p].mem, procs[p].arg)
        /\ \E p \in Procs : file.drives = procs[p].mem
        /\ \A p, q \in Procs :
              HasUuid(procs[p].mem, procs[q].arg) /\ p # q => file.drives = procs[p].mem
        /\ (\A p, q \in Procs : p # q => ~HasUuid(procs[p].mem, procs[q].arg))
              => Len(file.drives) = 1

\* the lost update: both calls returned true, one record is stored
C17_Witness ==
    /\ BothAdded
    /\ procs[1].arg = "abc-123" /\ procs[2].arg = "def-456"
    /\ Len(file.drives) = 1
    /\ ~HasUuid(file.drives, "def-456")

(***************************************************************************)
(* Properties of the labeler                                               *)
(***************************************************************************)
\* the signals of the drive given to the labeler
PoolDetected == probe.info.lxdInfo # <<>> /\ probe.info.lxdInfo[1].isLXD

\* an OS whose name is known has been detected
OsNamed ==
    /\ probe.info.osInfo # <<>>
    /\ Str(probe.info.osInfo[1].osType)
          \notin {"", "Unknown", "Linux (Unknown Distribution)"}

BootFlag == probe.info.bootable /\ probe.info.bootPartitions # <<>>

Mounted == Str(probe.drive.mountpoint) # "not mounted"

VolumeLabelled ==
    /\ probe.drive.fstype \in {"vfat", "ntfs"}
    /\ probe.drive.blkid.ok
    /\ Str(probe.drive.blkid.out) \notin {"", " ", "\n"}

ModelKnown == Str(probe.drive.model) \notin {"", "Unknown Model", "unknown"}

\* C18: the label comes from the first source present, in the order container
\* pool, detected OS, boot flag, mount path, filesystem volume label, hardware
\* model, device name and size; a drive with a pool and a mount path is labelled
\* from the pool.
C18_LabelFromFirstSource ==
    probe.pc = "labelled" =>
        LET mp == Str(probe.drive.mountpoint) IN
        probe.label =
            IF PoolDetected
            THEN (IF probe.info.lxdInfo[1].pools = <<>> THEN "LXD-Storage"
                  ELSE "LXD-" \o probe.info.lxdInfo[1].pools[1].name)
            ELSE IF OsNamed
            THEN (IF Str(probe.info.osInfo[1].osType) = "Ubuntu 22.04 (Jammy) LTS"
                  THEN "Ubuntu-22.04-LTS" ELSE "")
            ELSE IF BootFlag THEN "Boot-Drive"
            ELSE IF Mounted
            THEN (CASE mp = "/" -> "Root-System"
                    [] mp = "/mnt/usb 1" -> "usb-1"
                    [] mp = "/media/Backup" -> "Backup"
                    [] mp = "/srv/dev-data" -> "dev-data"
                    [] mp = "/media/data" -> "data"
                    [] mp = "/home/projects" -> "projects"
                    [] mp = "[SWAP]" -> "-SWAP-")
            ELSE IF VolumeLabelled THEN "MY-DISK"
            ELSE IF ModelKnown THEN "SanDisk-Ultra-USB-3."
            ELSE "sdb1-149GB"

\* a drive with a storage pool, an OS, the boot flag, a mount path, a volume
\* label and a model has been labelled from the pool
C18_Witness ==
    /\ probe.pc = "labelled"
    /\ PoolDetected /\ OsNamed /\ BootFlag /\ Mounted /\ VolumeLabelled /\ ModelKnown
    /\ Str(probe.drive.mountpoint) = "/mnt/usb 1"
    /\ probe.label = "LXD-default"

\* C19: generateSmartLabel and detectPurpose each return a non-empty string for
\* every drive and every detailed info.
C19_LabelAndPurposeNonEmpty ==
    probe.pc = "labelled" => probe.label # "" /\ probe.purpose # ""

\* what the stages below the boot stage come to for the mount paths, filesystems
\* and directory listings given to the labeler
MountKeywordPurpose ==
    LET mp == Str(probe.drive.mountpoint) IN
    CASE mp = "/media/Backup" -> "Backup"
      [] mp = "/media/data" -> "Media Storage"
      [] mp = "/srv/dev-data" -> "Data Storage"
      [] mp = "/home/projects" -> "Development"
      [] OTHER -> ""

DirectoryPurpose ==
    LET dirs == Str(probe.drive.ls.out) IN
    IF ~Mounted \/ ~probe.drive.ls.ok THEN ""
    ELSE CASE dirs = "lost+found\nMedia\n" -> "Media Storage"
           [] dirs = "Documents\nbackup\n" -> "Backup Storage"
           [] OTHER -> ""

ContainerPurpose ==
    IF probe.info.lxdInfo[1].containers = <<>> THEN "LXD Storage"
    ELSE "LXD Storage (2 containers)"

\* C20 as claimed: the purpose comes from the first stage that applies of
\* container storage, OS install, boot, mount-path keyword (backup, then media,
\* then data, then project), swap filesystem, directory-name keyword, default.
C20_PurposeChainAsClaimed ==
    probe.pc = "labelled" =>
        probe.purpose =
            IF PoolDetected THEN ContainerPurpose
            ELSE IF probe.info.osInfo # <<>> THEN "Operating System"
            ELSE IF probe.info.bootable THEN "System Boot"
            ELSE IF MountKeywordPurpose # "" THEN MountKeywordPurpose
            ELSE IF probe.drive.fstype = "swap" THEN "Swap Memory"
            ELSE IF DirectoryPurpose # "" THEN DirectoryPurpose
            ELSE "General Storage"

\* C20 amended: as claimed, with one more stage between the mount-path keywords
\* and the swap filesystem: a drive mounted at / is 'System Root'.
C20_PurposeFromFirstStage ==
    probe.pc = "labelled" =>
        probe.purpose =
            IF PoolDetected THEN ContainerPurpose
            ELSE IF probe.info.osInfo # <<>> THEN "Operating System"
            ELSE IF probe.info.bootable THEN "System Boot"
            ELSE IF MountKeywordPurpose # "" THEN MountKeywordPurpose
            ELSE IF Str(probe.drive.mountpoint) = "/" THEN "System Root"
            ELSE IF probe.drive.fstype = "swap" THEN "Swap Memory"
            ELSE IF DirectoryPurpose # "" THEN DirectoryPurpose
            ELSE "General Storage"

\* a swap filesystem mounted at a path with the keywords data and dev, holding a
\* Media directory, no pool, OS or boot flag found: the purpose is the one of
\* the data keyword
C20_Witness ==
    /\ probe.pc = "labelled"
    /\ ~PoolDetected /\ probe.info.osInfo = <<>> /\ ~probe.info.bootable
    /\ Str(probe.drive.mountpoint) = "/srv/dev-data"
    /\ probe.drive.fstype = "swap"
    /\ DirectoryPurpose = "Media Storage"
    /\ probe.purpose = "Data Storage"

(***************************************************************************)
(* SpecFields: the storage module given records that carry more than the   *)
(* DriveRecord schema (the manual form's size and type, free-form          *)
(* properties, a property left undefined), and edits of such properties.   *)
(***************************************************************************)
FieldUUIDs == {"abc-123", "def-456"}

\* driveData as index.js and test.js build it, and with properties no schema names
FieldInputs ==
    { [uuid |-> "abc-123", label |-> "Test", size |-> "1GB", type |-> "Test Type",
       purpose |-> "Backup", device |-> "/dev/sda1"],
      [uuid |-> "def-456", label |-> "Media", purpose |-> "Media",
       device |-> "/dev/sdb1", notes |-> "on shelf", owner |-> Undefined] }

FieldNames == {"label", "notes"}

NextFields ==
    \/ \E d \in FieldInputs : ApiAddDrive(d)
    \/ \E u \in FieldUUIDs : ApiUpdateLastSeen(u)
    \/ \E u \in FieldUUIDs, f \in FieldNames, v \in EditValues : ApiUpdateDriveField(u, f, v)
    \/ \E u \in FieldUUIDs : ApiRemoveDrive(u)
    \/ Tick

SpecFields == Init /\ [][NextFields]_vars

\* obj[g] as JavaScript reads it: undefined when the object has no such property
Read(obj, g) == IF g \in DOMAIN obj THEN obj[g] ELSE Undefined

Timestamps == {"first_seen", "last_seen"}

\* the record getDriveByUUID returns for r's uuid from f reads as r on every
\* property of r outside except
Kept(f, r, except) ==
    LET o == getDriveByUUID(f, r.uuid) IN
    /\ o.out = "record"
    /\ \A g \in DOMAIN r \ except : Read(o.rows[1], g) = Read(r, g)

\* C21: every property of a record passed to addDrive other than first_seen and
\* last_seen, in the schema or not, is read back with the same value from
\* getDriveByUUID and getAllDrives, and a stored record keeps every property
\* across updateLastSeen (last_seen apart), updateDriveField (the named field of
\* the named record apart), and adds and removes of other records.
C21_UnknownFieldsRoundTrip ==
    /\ \A d \in FieldInputs :
          LET o == addDrive(file, d, clock) IN
          o.out = "true" =>
             /\ Kept(o.file, d, Timestamps)
             /\ \E i \in 1..Len(getAllDrives(o.file).rows) :
                   \A g \in DOMAIN d \ Timestamps :
                      Read(getAllDrives(o.file).rows[i], g) = Read(d, g)
    /\ \A i \in 1..Len(file.drives) :
          LET r == file.drives[i] IN
          /\ \A u \in FieldUUIDs : Kept(updateLastSeen(file, u, clock).file, r, {"last_seen"})
          /\ \A u \in FieldUUIDs, g \in FieldNames, v \in EditValues :
                Kept(updateDriveField(file, u, g, v).file, r,
                     IF u = r.uuid THEN {g} ELSE {})
          /\ \A d \in FieldInputs :
                d.uuid # r.uuid => Kept(addDrive(file, d, clock).file, r, {})
          /\ \A u \in FieldUUIDs \ {r.uuid} : Kept(removeDrive(file, u).file, r, {})

\* both records are stored with their extra properties after an edit, a touch
\* and a removal of another record
C21_Witness ==
    /\ clock > 0
    /\ ret.op = "updateLastSeen"
    /\ \E i \in 1..Len(file.drives) :
          /\ "size" \in DOMAIN file.drives[i]
          /\ file.drives[i].size = "1GB"
          /\ file.drives[i].label = "Renamed"
          /\ file.drives[i].last_seen > file.drives[i].first_seen
    /\ \E i \in 1..Len(file.drives) :
          /\ "notes" \in DOMAIN file.drives[i]
          /\ "owner" \notin DOMAIN file.drives[i]
          /\ file.drives[i].notes = "on shelf"

\* C22: initStorage creates the directory and a backing file holding the empty
\* collection only when they are absent and returns every existing backing file
\* as it is, a registry or not; a second call changes nothing, and every store
\* operation gives the same outcome after any number of initStorage calls, so
\* the stored records are as they were.
C22_InitStorageIdempotent ==
    LET once == initStorage(file) IN
    /\ initStorage(once) = once
    /\ file.kind \in {"nodir", "absent"} => once = JsonFile(<<>>)
    /\ file.kind \notin {"nodir", "absent"} => once = file
    /\ getAllDrives(once).rows = getAllDrives(file).rows
    /\ \A d \in DriveInputs : addDrive(once, d, clock) = addDrive(file, d, clock)
    /\ \A u \in TestUUIDs :
          /\ getDriveByUUID(once, u) = getDriveByUUID(file, u)
          /\ updateLastSeen(once, u, clock) = updateLastSeen(file, u, clock)
          /\ removeDrive(once, u) = removeDrive(file, u)

\* initStorage returned on a registry holding two records
C22_Witness ==
    /\ ret.op = "initStorage"
    /\ Len(file.drives) > 1

(***************************************************************************)
(* claude-helper.js and index.js searchDrives.  The API key comes from the *)
(* environment or from config.json; the reply of the messages API is an    *)
(* input of the model.  SpecSearch runs one search from its first prompt.  *)
(***************************************************************************)
\* process.env.ANTHROPIC_API_KEY: unset, empty, set
EnvKeys == {Undefined, "", "sk-env"}

\* ~/.config/diskmgt/config.json: missing, not JSON, JSON without the key, with
\* an empty key, with a key
ConfigFiles ==
    { [kind |-> "absent", anthropicApiKey |-> Undefined],
      [kind |-> "garbage", anthropicApiKey |-> Undefined],
      [kind |-> "json", anthropicApiKey |-> Undefined],
      [kind |-> "json", anthropicApiKey |-> ""],
      [kind |-> "json", anthropicApiKey |-> "sk-file"] }

\* getApiKey()
getApiKey(env, config) ==
    IF env \notin {Undefined, ""} THEN env
    ELSE IF config.kind = "absent" THEN Null
    ELSE IF config.kind = "garbage" THEN Null
    ELSE IF config.anthropicApiKey \in {Undefined, ""} THEN Null
    ELSE config.anthropicApiKey

\* isAIAvailable()
isAIAvailable(env, config) == getApiKey(env, config) # Null

\* what client.messages.create does: it rejects (with an authentication error, with
\* another error, with a value that has no message), or resolves with a text that
\* is not JSON, that is JSON but no array, or that is an array of uuids
Replies ==
    { [kind |-> "rejected", message |-> "401 authentication_error", json |-> Null, uuids |-> <<>>],
      [kind |-> "rejected", message |-> "ECONNRESET", json |-> Null, uuids |-> <<>>],
      [kind |-> "rejected", message |-> Undefined, json |-> Null, uuids |-> <<>>],
      [kind |-> "resolved", message |-> "", json |-> "garbage", uuids |-> <<>>],
      [kind |-> "resolved", message |-> "", json |-> "object", uuids |-> <<>>],
      [kind |-> "resolved", message |-> "", json |-> "array", uuids |-> <<>>],
      [kind |-> "resolved", message |-> "", json |-> "array", uuids |-> <<"def-456">>],
      [kind |-> "resolved", message |-> "", json |-> "array",
       uuids |-> <<"test-uuid-12345", "no-such-uuid">>] }

\* the API has not been called
NoReply == [kind |-> "none", message |-> "", json |-> Null, uuids |-> <<>>]

Thrown(message) == [threw |-> TRUE, message |-> message, uuids |-> <<>>]

\* semanticSearch(query, drives), given the reply of the API
semanticSearch(apiKey, reply) ==
    IF apiKey = Null THEN Thrown("No API key configured")
    ELSE IF reply.kind = "rejected"
    THEN IF reply.message = Undefined
         THEN Thrown("Cannot read properties of undefined (reading 'includes')")
         ELSE IF reply.message = "401 authentication_error"
         THEN Thrown("Invalid API key")
         ELSE Thrown(reply.message)
    ELSE IF reply.json = "garbage" THEN Thrown("Unexpected token")
    ELSE IF reply.json # "array" THEN Thrown("Invalid response format")
    ELSE [threw |-> FALSE, message |-> "", uuids |-> reply.uuids]

\* `${obj[g]}` in a template literal: the text "undefined" for a missing property
Template(obj, g) == IF g \in DOMAIN obj THEN obj[g] ELSE <<"u", "n", "d", "e", "f", "i", "n", "e", "d">>

\* `${d.label} ${d.type} ${d.purpose} ${d.device}`.toLowerCase()
searchText(d) ==
    toLowerCase(Template(d, "label") \o <<" ">> \o Template(d, "type") \o <<" ">>
                \o Template(d, "purpose") \o <<" ">> \o Template(d, "device"))

\* the filter of the basic search: a direct match or one of the aliases
basicMatch(d, query) ==
    LET queryLower == toLowerCase(query) IN
    \/ includes(searchText(d), queryLower)
    \/ queryLower = <<"l", "x", "c">> /\ includes(searchText(d), <<"l", "x", "d">>)
    \/ queryLower = <<"l", "x", "d">> /\ includes(searchText(d), <<"l", "x", "c">>)
    \/ queryLower = <<"c", "o", "n", "t", "a", "i", "n", "e", "r">> /\ includes(searchText(d), <<"l", "x", "d">>)
    \/ queryLower = <<"o", "s">> /\ includes(searchText(d), <<"o", "p", "e", "r", "a", "t", "i", "n", "g", " ", "s", "y", "s", "t", "e", "m">>)
    \/ queryLower = <<"s", "y", "s", "t", "e", "m">> /\ includes(searchText(d), <<"o", "p", "e", "r", "a", "t", "i", "n", "g", " ", "s", "y", "s", "t", "e", "m">>)
    \/ queryLower = <<"r", "o", "o", "t">> /\ includes(searchText(d), <<"r", "o", "o", "t", "-", "s", "y", "s", "t", "e", "m">>)

\* known.filter(...) of the basic search
basicSearch(rows, query) == SelectSeq(rows, LAMBDA d : basicMatch(d, query))

\* known.filter(d => matchingUUIDs.includes(d.uuid))
aiResults(rows, matchingUUIDs) ==
    SelectSeq(rows, LAMBDA d : \E i \in 1..Len(matchingUUIDs) : matchingUUIDs[i] = d.uuid)

\* the registries searched; the third record was stored without a type
SearchRecords ==
    << [uuid |-> "abc-123", label |-> <<"L", "X", "D", "-", "P", "o", "o", "l">>, type |-> <<"S", "S", "D">>,
        purpose |-> <<"L", "X", "C", " ", "C", "o", "n", "t", "a", "i", "n", "e", "r", "s">>, device |-> <<"/", "d", "e", "v", "/", "s", "d", "a", "1">>],
       [uuid |-> "def-456", label |-> <<"R", "o", "o", "t", "-", "S", "y", "s", "t", "e", "m">>, type |-> <<"N", "V", "M", "e">>,
        purpose |-> <<"O", "p", "e", "r", "a", "t", "i", "n", "g", " ", "S", "y", "s", "t", "e", "m">>, device |-> <<"/", "d", "e", "v", "/", "s", "d", "b", "1">>],
       [uuid |-> "test-uuid-12345", label |-> <<"B", "a", "c", "k", "u", "p">>,
        purpose |-> <<"B", "a", "c", "k", "u", "p">>, device |-> <<"/", "d", "e", "v", "/", "s", "d", "c", "1">>] >>

SearchRegistries == {<<>>, SubSeq(SearchRecords, 3, 3), SearchRecords}

\* what the user types at the search prompt
Queries ==
    { <<>>, <<" ">>, <<"l", "x", "c">>, <<"L", "X", "D">>, <<"o", "s">>, <<" ", "r", "o", "o", "t">>, <<"b", "a", "c", "k", "u", "p">>, <<"u", "s", "b">> }

SearchMethods == {"ai", "basic"}

InitSearch ==
    /\ \E r \in SearchRegistries, e \in EnvKeys, c \in ConfigFiles :
          /\ file = JsonFile(r)
          /\ job = [pc |-> "search_query", env |-> e, config |-> c, query |-> <<>>,
                    aiChoice |-> Null, reply |-> NoReply, useAI |-> FALSE,
                    results |-> <<>>, failed |-> FALSE]
    /\ probe = NoProbe
    /\ clock = 0
    /\ plugged = {}
    /\ pc = "menu"
    /\ detected = <<>>
    /\ known = <<>>
    /\ cand = <<>>
    /\ sel = <<>>
    /\ scanAt = 0
    /\ scanOk = TRUE
    /\ view = <<>>
    /\ ret = NoRet
    /\ calls = <<>>
    /\ procs = [p \in Procs |-> IdleProc]

searchLocals == <<clock, plugged, menuLocals, ret, calls, procs, probe>>

\* searchDrives up to its second prompt: the query is read; a blank one returns;
\* the registry is read; with a key the method is asked for, without one the
\* basic search runs
SearchQuery(query) ==
    /\ job.pc = "search_query"
    /\ file' = IF trim(query) = <<>> THEN file ELSE getAllDrives(file).file
    /\ job' = IF trim(query) = <<>>
              THEN [job EXCEPT !.pc = "returned", !.query = query]
              ELSE IF isAIAvailable(job.env, job.config)
              THEN [job EXCEPT !.pc = "search_method", !.query = query]
              ELSE [job EXCEPT !.pc = "search_continue", !.query = query,
                               !.results = basicSearch(getAllDrives(file).rows, query)]
    /\ UNCHANGED searchLocals

\* the method is chosen: the AI search is awaited, or the basic search runs
SearchMethod(aiChoice) ==
    /\ job.pc = "search_method"
    /\ job' = IF aiChoice = "ai"
              THEN [job EXCEPT !.pc = "search_ai", !.aiChoice = aiChoice, !.useAI = TRUE]
              ELSE [job EXCEPT !.pc = "search_continue", !.aiChoice = aiChoice,
                               !.results = basicSearch(file.drives, job.query)]
    /\ UNCHANGED <<file, searchLocals>>

\* the catch of searchDrives leaving results as they are, without the basic search
SearchFallbackNone(rows, query) == <<>>

\* the catch of searchDrives: useAI = false, and the basic search runs after it
SearchFallback(rows, query) == basicSearch(rows, query)

\* semanticSearch settles: its uuids filter the registry, or its error is caught
SearchAI(reply) ==
    /\ job.pc = "search_ai"
    /\ LET o == semanticSearch(getApiKey(job.env, job.config), reply) IN
       job' = IF o.threw
              THEN [job EXCEPT !.pc = "search_continue", !.reply = reply, !.useAI = FALSE,
                               !.failed = TRUE,
                               !.results = SearchFallback(file.drives, job.query)]
              ELSE [job EXCEPT !.pc = "search_continue", !.reply = reply,
                               !.results = aiResults(file.drives, o.uuids)]
    /\ UNCHANGED <<file, searchLocals>>

\* 'Press Enter to continue...' is answered and searchDrives returns
SearchContinue ==
    /\ job.pc = "search_continue"
    /\ job' = [job EXCEPT !.pc = "returned"]
    /\ UNCHANGED <<file, searchLocals>>

NextSearch ==
    \/ \E q \in Queries : SearchQuery(q)
    \/ \E m \in SearchMethods : SearchMethod(m)
    \/ \E r \in Replies : SearchAI(r)
    \/ SearchContinue

SpecSearch == InitSearch /\ [][NextSearch]_vars

\* the reply is one semanticSearch throws on
ReplyFails(reply) ==
    \/ reply.kind = "rejected"
    \/ reply.kind = "resolved" /\ reply.json # "array"

\* C23: for a query that is not blank, the results shown are exactly those of the
\* basic text search when no API key is configured, when the user chose the
\* basic search, and when the AI search threw; the search then ends at its
\* 'continue' prompt, no error leaving searchDrives.
C23_SearchFallsBackToBasic ==
    /\ job.pc \in {"search_query", "search_method", "search_ai", "search_continue",
                   "returned"}
    /\ (job.pc = "search_ai" /\ trim(job.query) # <<>>) =>
          \A r \in Replies :
             ReplyFails(r) => semanticSearch(getApiKey(job.env, job.config), r).threw
    /\ (/\ job.pc \in {"search_continue", "returned"}
        /\ trim(job.query) # <<>>
        /\ \/ getApiKey(job.env, job.config) = Null
           \/ job.aiChoice = "basic"
           \/ ReplyFails(job.reply)) =>
             /\ job.results = basicSearch(file.drives, job.query)
             /\ job.useAI = FALSE

\* the AI search threw and the basic search found the drive through an alias
C23_Witness ==
    /\ job.pc = "search_continue"
    /\ job.failed
    /\ job.query = <<"l", "x", "c">>
    /\ Len(job.results) = 1
    /\ job.results[1].uuid = "abc-123"

(***************************************************************************)
(* partitiontools.js, maintenance.js checkFilesystem, and the two menus of *)
(* index.js that call them (managePartition, maintenanceMenu).  job.ran is *)
(* the list of the external commands execSync was given, in order.         *)
(* SpecTools runs one of the two menus on one scan.                        *)
(***************************************************************************)
ToolNode(name, type, mountpoint, fstype) ==
    [name |-> name, type |-> type, mountpoint |-> mountpoint, fstype |-> fstype,
     device |-> "/dev/" \o name]

\* the scans the menus are built from
ToolScans ==
    { <<ToolNode("sda", "disk", "not mounted", "unknown")>>,
      <<ToolNode("sda", "disk", "not mounted", "unknown"),
        ToolNode("sda1", "part", "/mnt/usb", "ext4"),
        ToolNode("sdb1", "part", "not mounted", "ext4"),
        ToolNode("sdc1", "part", "not mounted", "xfs"),
        ToolNode("sdd1", "part", "not mounted", "ntfs"),
        ToolNode("sde", "disk", "/data", "btrfs")>> }

\* the entries of the tool menu
Tools ==
    {"details", "mount", "unmount", "fsck_ro", "fsck_repair", "backup", "label",
     "resize", "format", "clone", "back"}

\* the entries of the format menu
FormatChoices == {"ext4", "ext3", "btrfs", "xfs", "vfat", "Cancel"}

\* the entries of the maintenance menu that ask for a drive
MaintenanceActions == {"largest_dirs", "interactive", "fsck", "smart"}

NoPartition == ToolNode("", "none", "not mounted", "unknown")

\* one execSync call: the command line before its operands, the device it is
\* given, and whether it exited with status 0
Exec(cmd, device, ok) == [cmd |-> cmd, device |-> device, ok |-> ok]

\* the switch of partitiontools.checkFilesystem: the command, Null when the
\* filesystem type is not supported
checkCmd(fstype, readOnly) ==
    IF fstype \in {"ext4", "ext3", "ext2"}
    THEN (IF readOnly THEN "e2fsck -n" ELSE "e2fsck -p")
    ELSE IF fstype = "btrfs"
    THEN (IF readOnly THEN "btrfs check --readonly" ELSE "btrfs check --repair")
    ELSE IF fstype = "xfs"
    THEN (IF readOnly THEN "xfs_repair -n" ELSE "xfs_repair")
    ELSE IF fstype \in {"vfat", "fat32"}
    THEN (IF readOnly THEN "fsck.vfat -n" ELSE "fsck.vfat -a")
    ELSE Null

\* partitiontools.checkFilesystem(device, fstype, readOnly): the commands it runs
checkFilesystem(device, fstype, readOnly, ok) ==
    IF checkCmd(fstype, readOnly) = Null THEN <<>>
    ELSE <<Exec(checkCmd(fstype, readOnly), device, ok)>>

\* the switch of resizePartition, Null when the type is not supported
resizeCmd(fstype) ==
    IF fstype \in {"ext4", "ext3", "ext2"} THEN "resize2fs"
    ELSE IF fstype = "btrfs" THEN "btrfs filesystem resize"
    ELSE IF fstype = "xfs" THEN "xfs_growfs"
    ELSE Null

\* the switch of formatPartition
formatCmd(fstype) == "mkfs." \o fstype

\* the switch of setPartitionLabel, Null when the type is not supported
labelCmd(fstype) ==
    IF fstype \in {"ext4", "ext3", "ext2"} THEN "e2label"
    ELSE IF fstype = "btrfs" THEN "btrfs filesystem label"
    ELSE IF fstype = "xfs" THEN "xfs_admin -L"
    ELSE IF fstype \in {"vfat", "fat32"} THEN "fatlabel"
    ELSE Null

\* the switch of maintenance.checkFilesystem: always the read-only command
maintenanceCheckFilesystem(device, fstype, ok) == checkFilesystem(device, fstype, TRUE, ok)

\* the targets maintenanceMenu offers: every mounted node, and for fsck and smart
\* every partition that is not mounted, its mountpoint then null
Targets(nodes, action) ==
    SelectSeq(nodes, LAMBDA d : d.mountpoint # "not mounted")
    \o (IF action \in {"fsck", "smart"}
        THEN [i \in 1..Len(SelectSeq(nodes, LAMBDA d : d.mountpoint = "not mounted"
                                                        /\ d.type = "part")) |->
                 [SelectSeq(nodes, LAMBDA d : d.mountpoint = "not mounted"
                                              /\ d.type = "part")[i]
                     EXCEPT !.mountpoint = Null]]
        ELSE <<>>)

StartJob(menu) ==
    [pc |-> "start", menu |-> menu, action |-> Null, partition |-> NoPartition,
     tool |-> Null, fstype |-> Null, target |-> Null, asked |-> FALSE,
     confirm |-> FALSE, error |-> FALSE, ran |-> <<>>]

InitTools ==
    /\ detected \in ToolScans
    /\ job \in {StartJob("partition"), StartJob("maintenance")}
    /\ probe = NoProbe
    /\ file = JsonFile(<<>>)
    /\ clock = 0
    /\ plugged = {}
    /\ pc = "menu"
    /\ known = <<>>
    /\ cand = <<>>
    /\ sel = <<>>
    /\ scanAt = 0
    /\ scanOk = TRUE
    /\ view = <<>>
    /\ ret = NoRet
    /\ calls = <<>>
    /\ procs = [p \in Procs |-> IdleProc]

toolLocals ==
    <<file, clock, plugged, pc, detected, known, cand, sel, scanAt, scanOk, view, ret,
      calls, procs, probe>>

\* managePartition(detected) up to 'Select partition:'
ManagePartition ==
    /\ job.pc = "start" /\ job.menu = "partition"
    /\ job' = [job EXCEPT !.pc = IF Len(Partitions(detected)) = 0 THEN "continue"
                                 ELSE "partition_select"]
    /\ UNCHANGED toolLocals

\* a partition or Back (0) is chosen
PartitionSelect(i) ==
    /\ job.pc = "partition_select"
    /\ i \in 0..Len(Partitions(detected))
    /\ job' = IF i = 0 THEN [job EXCEPT !.pc = "returned"]
              ELSE [job EXCEPT !.pc = "tool_select", !.partition = Partitions(detected)[i]]
    /\ UNCHANGED toolLocals

\* the guard of repair, resize and format left out
isMountedIgnored(partition) == FALSE

\* const isMounted = partition.mountpoint !== 'not mounted'
isMounted(partition) == partition.mountpoint # "not mounted"

\* the commands run at once by the tool chosen: everything the switch of
\* managePartition runs before the next prompt
ToolCommands(partition, tool, ok) ==
    IF tool = "details" THEN <<Exec("lsblk", partition.device, ok)>>
    ELSE IF tool = "mount"
    THEN <<Exec("mkdir -p", partition.device, ok)>>
         \o (IF ok THEN <<Exec("mount", partition.device, ok)>> ELSE <<>>)
    ELSE IF tool = "unmount" THEN <<Exec("umount", partition.device, ok)>>
    ELSE IF tool = "fsck_ro"
    THEN checkFilesystem(partition.device, partition.fstype, TRUE, ok)
    ELSE IF tool = "fsck_repair" /\ ~isMounted(partition)
    THEN checkFilesystem(partition.device, partition.fstype, FALSE, ok)
    ELSE IF tool = "backup" THEN <<Exec("dd of=/tmp/backup.img", partition.device, ok)>>
    ELSE IF tool = "resize" /\ ~isMounted(partition)
    THEN <<Exec("blockdev --getsize64", partition.device, ok)>>
    ELSE <<>>

\* the prompt the tool chosen waits at next
ToolPrompt(partition, tool, ok) ==
    IF tool = "back" THEN "returned"
    ELSE IF tool = "label" THEN "label_input"
    ELSE IF tool = "resize" /\ ~isMounted(partition) /\ ok THEN "resize_size"
    ELSE IF tool = "format" /\ ~isMounted(partition) THEN "format_fstype"
    ELSE IF tool = "clone" THEN "clone_target"
    ELSE "continue"

\* a tool is chosen; mount is offered for a partition that is not mounted and
\* unmount for one that is
ToolSelect(tool, ok) ==
    /\ job.pc = "tool_select"
    /\ tool = "mount" => ~(job.partition.mountpoint # "not mounted")
    /\ tool = "unmount" => job.partition.mountpoint # "not mounted"
    /\ job' = [job EXCEPT
                 !.pc = ToolPrompt(job.partition, tool, ok),
                 !.tool = tool,
                 !.ran = ToolCommands(job.partition, tool, ok),
                 !.error = \/ (tool \in {"fsck_repair", "resize", "format"}
                               /\ isMounted(job.partition))
                           \/ (tool \in {"fsck_ro", "fsck_repair"}
                               /\ checkCmd(job.partition.fstype, TRUE) = Null)
                           \/ (tool \in {"mount", "unmount", "backup", "resize"} /\ ~ok)]
    /\ UNCHANGED toolLocals

\* setPartitionLabel after its prompt
LabelInput(ok) ==
    /\ job.pc = "label_input"
    /\ job' = [job EXCEPT
                 !.pc = "continue",
                 !.ran = IF labelCmd(job.partition.fstype) = Null THEN <<>>
                         ELSE <<Exec(labelCmd(job.partition.fstype), job.partition.device, ok)>>,
                 !.error = labelCmd(job.partition.fstype) = Null \/ ~ok]
    /\ UNCHANGED toolLocals

\* resizePartition after 'Enter new size': the switch on the type, then the
\* confirmation is asked
ResizeSize ==
    /\ job.pc = "resize_size"
    /\ job' = IF resizeCmd(job.partition.fstype) = Null
              THEN [job EXCEPT !.pc = "continue", !.error = TRUE]
              ELSE [job EXCEPT !.pc = "resize_confirm", !.asked = TRUE]
    /\ UNCHANGED toolLocals

\* resizePartition after 'Resize <device> to <size>?'
ResizeConfirm(confirm, ok) ==
    /\ job.pc = "resize_confirm"
    /\ job' = [job EXCEPT
                 !.pc = "continue",
                 !.confirm = confirm,
                 !.ran = IF confirm
                         THEN Append(@, Exec(resizeCmd(job.partition.fstype),
                                             job.partition.device, ok))
                         ELSE @,
                 !.error = confirm /\ ~ok]
    /\ UNCHANGED toolLocals

\* formatPartition after 'Select filesystem type:'
FormatFstype(fstype) ==
    /\ job.pc = "format_fstype"
    /\ job' = IF fstype = "Cancel"
              THEN [job EXCEPT !.pc = "continue", !.fstype = fstype]
              ELSE [job EXCEPT !.pc = "format_confirm", !.fstype = fstype, !.asked = TRUE]
    /\ UNCHANGED toolLocals

\* formatPartition after 'Format <device> as <fstype>?'
FormatConfirm(confirm, ok) ==
    /\ job.pc = "format_confirm"
    /\ job' = [job EXCEPT
                 !.pc = "continue",
                 !.confirm = confirm,
                 !.ran = IF confirm
                         THEN <<Exec(formatCmd(job.fstype), job.partition.device, ok)>>
                         ELSE <<>>,
                 !.error = confirm /\ ~ok]
    /\ UNCHANGED toolLocals

\* partitions.filter(p => p.device !== partition.device)
CloneTargets(nodes, partition) ==
    SelectSeq(Partitions(nodes), LAMBDA q : q.device # partition.device)

\* 'Select target partition:' is answered with a target or Cancel (0); a target
\* leads to the warning and the confirmation of clonePartition
CloneTarget(j) ==
    /\ job.pc = "clone_target"
    /\ j \in 0..Len(CloneTargets(detected, job.partition))
    /\ job' = IF j = 0 THEN [job EXCEPT !.pc = "continue"]
              ELSE [job EXCEPT !.pc = "clone_confirm", !.asked = TRUE,
                               !.target = CloneTargets(detected, job.partition)[j].device]
    /\ UNCHANGED toolLocals

\* clonePartition after 'Are you absolutely sure you want to proceed?'
CloneConfirm(confirm, ok) ==
    /\ job.pc = "clone_confirm"
    /\ job' = [job EXCEPT
                 !.pc = "continue",
                 !.confirm = confirm,
                 !.ran = IF confirm THEN <<Exec("dd of=" \o job.target, job.partition.device, ok)>>
                         ELSE <<>>,
                 !.error = confirm /\ ~ok]
    /\ UNCHANGED toolLocals

\* maintenanceMenu: an action that needs a drive is chosen, the targets are built
MaintenanceSelect(action) ==
    /\ job.pc = "start" /\ job.menu = "maintenance"
    /\ job' = [job EXCEPT !.pc = IF Len(Targets(detected, action)) = 0 THEN "continue"
                                 ELSE "target_select",
                          !.action = action]
    /\ UNCHANGED toolLocals

\* the switch of maintenanceMenu on the target chosen
MaintenanceCommands(target, action, ok) ==
    IF action = "largest_dirs" THEN <<Exec("du", target.mountpoint, ok)>>
    ELSE IF action = "interactive" THEN <<Exec("ncdu", target.mountpoint, ok)>>
    ELSE IF action = "smart" THEN <<Exec("smartctl", target.device, ok)>>
    ELSE IF target.mountpoint # Null THEN <<>>
    ELSE maintenanceCheckFilesystem(target.device, target.fstype, ok)

\* 'Select drive/partition:' is answered with a target or Cancel (0)
MaintenanceTarget(i, ok) ==
    /\ job.pc = "target_select"
    /\ i \in 0..Len(Targets(detected, job.action))
    /\ job' = IF i = 0 THEN [job EXCEPT !.pc = "returned"]
              ELSE LET target == Targets(detected, job.action)[i] IN
                   [job EXCEPT
                      !.pc = "continue",
                      !.partition = target,
                      !.ran = MaintenanceCommands(target, job.action, ok),
                      !.error = job.action = "fsck" /\ target.mountpoint # Null]
    /\ UNCHANGED toolLocals

\* 'Press Enter to continue...' is answered and the menu function returns
ToolContinue ==
    /\ job.pc = "continue"
    /\ job' = [job EXCEPT !.pc = "returned"]
    /\ UNCHANGED toolLocals

NextTools ==
    \/ ManagePartition
    \/ \E i \in 0..4 : PartitionSelect(i)
    \/ \E t \in Tools, ok \in BOOLEAN : ToolSelect(t, ok)
    \/ \E ok \in BOOLEAN : LabelInput(ok)
    \/ ResizeSize
    \/ \E c \in BOOLEAN, ok \in BOOLEAN : ResizeConfirm(c, ok)
    \/ \E f \in FormatChoices : FormatFstype(f)
    \/ \E c \in BOOLEAN, ok \in BOOLEAN : FormatConfirm(c, ok)
    \/ \E j \in 0..4 : CloneTarget(j)
    \/ \E c \in BOOLEAN, ok \in BOOLEAN : CloneConfirm(c, ok)
    \/ \E a \in MaintenanceActions : MaintenanceSelect(a)
    \/ \E i \in 0..6, ok \in BOOLEAN : MaintenanceTarget(i, ok)
    \/ ToolContinue

SpecTools == InitTools /\ [][NextTools]_vars

\* the commands of the partition tools that change the data of a partition
ModifyingCmds ==
    {"e2fsck -p", "btrfs check --repair", "xfs_repair", "fsck.vfat -a",
     "resize2fs", "btrfs filesystem resize", "xfs_growfs",
     "mkfs.ext4", "mkfs.ext3", "mkfs.btrfs", "mkfs.xfs", "mkfs.vfat"}
    \cup {"dd of=/dev/" \o n : n \in {"sda1", "sdb1", "sdc1", "sdd1"}}

RanModifying == \E i \in 1..Len(job.ran) : job.ran[i].cmd \in ModifyingCmds

\* C24: a partition tool has run a data-modifying command only if a safety
\* confirmation was asked for the operation and answered affirmatively.
C24_ModifyingOnlyAfterConfirmation ==
    (job.menu = "partition" /\ RanModifying) => (job.asked /\ job.confirm)

\* C24, for format, resize and clone alone: their modifying command has run only
\* after an affirmative confirmation
C24_ConfirmedExceptRepair ==
    (job.menu = "partition" /\ RanModifying /\ job.tool # "fsck_repair")
       => (job.asked /\ job.confirm)

\* the mountpoint the scan that built the menu gave for a device
ScannedMountpoint(device) ==
    (CHOOSE d \in {detected[i] : i \in 1..Len(detected)} : d.device = device).mountpoint

\* the operation chosen is one of: repair, resize, format (partition menu), the
\* filesystem check (maintenance menu), and its partition has been chosen
GuardedOperation ==
    /\ job.partition.type # "none"
    /\ \/ job.menu = "partition" /\ job.tool \in {"fsck_repair", "resize", "format"}
       \/ job.menu = "maintenance" /\ job.action = "fsck"

Kilo == 1024

units == <<"B", "KB", "MB", "GB", "TB">>

\* size >= 1024 after unitIndex divisions: a digit above unitIndex is not zero,
\* or the top digit itself is 1024 or more
AtLeastKilo(bytes, unitIndex) ==
    \/ \E j \in (unitIndex + 2)..Len(bytes) : bytes[j] # 0
    \/ unitIndex + 1 = Len(bytes) /\ bytes[Len(bytes)] >= Kilo

\* while (size >= 1024 && unitIndex < units.length - 1) { size /= 1024; unitIndex++ }
RECURSIVE Ladder(_, _)
Ladder(bytes, unitIndex) ==
    IF AtLeastKilo(bytes, unitIndex) /\ unitIndex < Len(units) - 1
    THEN Ladder(bytes, unitIndex + 1)
    ELSE unitIndex

\* the carry out of digit k when ten times the fraction digits plus one half is
\* added up from the lowest digit: floor(10 * fraction + 1/2) for k = unitIndex
RECURSIVE Carry(_, _, _)
Carry(bytes, unitIndex, k) ==
    IF k = 0 THEN 0
    ELSE (10 * bytes[k] + Carry(bytes, unitIndex, k - 1)
          + (IF k = unitIndex THEN Kilo \div 2 ELSE 0)) \div Kilo

\* size after the loop, in tenths, rounded as toFixed(1) rounds: to the nearest
\* tenth, a tie going up
Tenths(bytes, unitIndex) ==
    10 * (IF unitIndex + 1 > Len(bytes) THEN 0 ELSE bytes[unitIndex + 1])
    + Carry(bytes, unitIndex, unitIndex)

\* size.toFixed(1)
toFixed(tenths) == ToString(tenths \div 10) \o "." \o ToString(tenths % 10)

\* formatSize(bytes)
formatSize(bytes) ==
    LET unitIndex == Ladder(bytes, 0) IN
    toFixed(Tenths(bytes, unitIndex))
    \o (IF unitIndex + 1 > Len(units) THEN "undefined" ELSE units[unitIndex + 1])

\* the digits the byte counts are made of
DigitSamples == {0, 1, 51, 52, 512, 972, 973, 1023}

TopDigitSamples == {0, 1, 3, 1023, 1024, 2047}

SizeInputs ==
    {<<d0, d1, d2, d3, d4>> : d0 \in DigitSamples, d1 \in DigitSamples,
                              d2 \in {0, 1, 1023}, d3 \in {0, 1, 1023},
                              d4 \in TopDigitSamples}

InitSize ==
    /\ \E b \in SizeInputs : job = [pc |-> "given", bytes |-> b, text |-> ""]
    /\ detected = <<>>
    /\ probe = NoProbe
    /\ file = JsonFile(<<>>)
    /\ clock = 0
    /\ plugged = {}
    /\ pc = "menu"
    /\ known = <<>>
    /\ cand = <<>>
    /\ sel = <<>>
    /\ scanAt = 0
    /\ scanOk = TRUE
    /\ view = <<>>
    /\ ret = NoRet
    /\ calls = <<>>
    /\ procs = [p \in Procs |-> IdleProc]

\* processDrive: size: formatSize(size)
FormatSize ==
    /\ job.pc = "given"
    /\ job' = [job EXCEPT !.pc = "formatted", !.text = formatSize(job.bytes)]
    /\ UNCHANGED toolLocals

NextSize == FormatSize

SpecSize == InitSize /\ [][NextSize]_vars

\* the byte count has this value (given by its base-1024 digits, lowest first)
IsBytes(d0, d1, d2, d3, d4) == job.bytes = <<d0, d1, d2, d3, d4>>

\* the examples: 0, 1536 = 1*1024 + 512, 1073741824 = 1024^3
C25_Examples ==
    job.pc = "formatted" =>
       /\ IsBytes(0, 0, 0, 0, 0) => job.text = "0.0B"
       /\ IsBytes(512, 1, 0, 0, 0) => job.text = "1.5KB"
       /\ IsBytes(0, 0, 0, 1, 0) => job.text = "1.0GB"

\* the unit chosen is the first of the ladder at which the value is below 1024,
\* and TB for every size of 1024^4 bytes or more
C25_UnitOfLadder ==
    job.pc = "formatted" =>
       LET unitIndex == Ladder(job.bytes, 0) IN
       /\ unitIndex \in 0..4
       /\ \A k \in 0..(unitIndex - 1) : AtLeastKilo(job.bytes, k)
       /\ unitIndex < 4 => ~AtLeastKilo(job.bytes, unitIndex)
       /\ job.bytes[5] # 0 <=> unitIndex = 4

\* C25: formatSize gives the examples, chooses the unit by the 1024 ladder with
\* TB for every size of at least 1024^4 bytes, and the value it displays is
\* below 1024 for every unit under TB.
C25_LadderAsClaimed ==
    /\ C25_Examples
    /\ C25_UnitOfLadder
    /\ job.pc = "formatted" =>
          LET unitIndex == Ladder(job.bytes, 0) IN
          unitIndex < 4 => Tenths(job.bytes, unitIndex) < 10 * Kilo

\* C25 with the value before rounding in place of the value displayed: the
\* examples and the ladder hold, and the text is the value rounded to a tenth
C25_LadderBeforeRounding ==
    /\ C25_Examples
    /\ C25_UnitOfLadder
    /\ job.pc = "formatted" =>
          LET unitIndex == Ladder(job.bytes, 0) IN
          /\ job.text = toFixed(Tenths(job.bytes, unitIndex)) \o units[unitIndex + 1]
          /\ Tenths(job.bytes, unitIndex) <= 10 * Kilo \/ unitIndex = 4

(***************************************************************************)
(* SpecUnique: the four mutating functions of storage.js called in any     *)
(* order from an empty store, updateDriveField with the field 'uuid' too.  *)
(***************************************************************************)
MaxRecords == 2

\* the field names and values given to updateDriveField
UniqueFields == {"uuid", "label"}

UniqueValues == {"abc-123", "Renamed"}

NextUnique ==
    \/ \E d \in DriveInputs : Len(file.drives) < MaxRecords /\ ApiAddDrive(d)
    \/ \E u \in TestUUIDs : ApiUpdateLastSeen(u)
    \/ \E u \in TestUUIDs, f \in UniqueFields, v \in UniqueValues :
          ApiUpdateDriveField(u, f, v)
    \/ \E u \in TestUUIDs : ApiRemoveDrive(u)

SpecUnique == Init /\ [][NextUnique]_vars

\* C26: no two stored records share a uuid, after any sequence of addDrive,
\* updateLastSeen, updateDriveField (any field, 'uuid' included) and removeDrive
\* from an empty store.
C26_UuidsUnique ==
    \A i, j \in 1..Len(file.drives) :
       i # j => file.drives[i].uuid # file.drives[j].uuid

\* C26 for the calls that leave the uuid property alone: a step that is not an
\* updateDriveField call keeps the uuids pairwise distinct
C26_OtherCallsKeepUnique ==
    [][(C26_UuidsUnique /\ ret'.op # "updateDriveField") => C26_UuidsUnique']_vars

\* the records of f2 are those of f followed by n more
Appended(f, f2, n) ==
    /\ Len(f2.drives) = Len(f.drives) + n
    /\ SubSeq(f2.drives, 1, Len(f.drives)) = f.drives

\* C27: the auto-register-all action leaves the backing file as it is while the
\* candidates are computed, when no candidate was produced and when the preview
\* is declined; when the preview is confirmed the records are appended and the
\* count in the success message is the number of records appended.
C27_RegistryChangesOnlyOnConfirm ==
    [][/\ (pc = "add_select" /\ pc' \in {"add_confirm", "add_done"}) => file' = file
       /\ (pc = "add_confirm" /\ pc' = "add_done" /\ ~job'.confirmAll) => file' = file
       /\ (pc = "add_confirm" /\ pc' = "add_done" /\ job'.confirmAll) =>
             /\ Appended(file, file', job'.successCount)
             /\ job'.successCount <= Len(cand)]_vars

\* the preview of two candidates with one uuid was confirmed: one record was
\* appended and the message says 1 of 2
C27_Witness ==
    /\ pc = "add_done"
    /\ job.pc = "auto_all"
    /\ job.confirmAll
    /\ Len(cand) = 2
    /\ job.successCount = 1

(***************************************************************************)
(* btrfs-convert.js convertToBtrfs(device).  job.device is the state of    *)
(* the device and of the machine; job.trace is the list, in order, of the  *)
(* checks the function made with their results and of the commands run.    *)
(***************************************************************************)
\* the device given to convertToBtrfs and the machine it is on: whether
\* btrfs-convert is installed, whether lsblk succeeds on the device, the
\* filesystem type and mountpoint lsblk gives
ConvertDevices ==
    [available : BOOLEAN, lsblkOk : BOOLEAN,
     fstype : {"ext4", "ext3", "ext2", "btrfs", "vfat"},
     mountpoint : {"/", "/mnt/usb", "not mounted"}]

\* isMounted(device): mount | grep "^<device> " printed a line; grep exits with 1
\* when there is none and the catch returns false
isMountedNow(mounted) == mounted

\* fsck(device, fstype): the events it adds; it throws when the last one is a failure
fsck(fstype, fsckOk) ==
    IF fstype \in {"ext4", "ext3", "ext2"}
    THEN (IF fsckOk THEN <<"e2fsck -fy: ok">> ELSE <<"e2fsck -fy: failed">>)
    ELSE <<"fsck: unsupported">>

\* no step of the try block throws
OkAlways(events) == TRUE

\* the step did not throw: its last event is no failure
Ok(events) == events # <<>> /\ events[Len(events)] \in {"e2fsck -fy: ok", "umount: ok",
                                                          "isMounted: false"}

\* the try block of convertToBtrfs: unmount if mounted, fsck, btrfs-convert, any
\* exception caught after it
TryConvert(fstype, mounted, umountOk, fsckOk, convertOk) ==
    LET unmounting == IF isMountedNow(mounted)
                      THEN <<"isMounted: true">>
                           \o (IF umountOk THEN <<"umount: ok">> ELSE <<"umount: failed">>)
                      ELSE <<"isMounted: false">>
    IN IF ~Ok(unmounting) THEN unmounting
       ELSE IF ~Ok(fsck(fstype, fsckOk)) THEN unmounting \o fsck(fstype, fsckOk)
       ELSE unmounting \o fsck(fstype, fsckOk)
            \o <<IF convertOk THEN "btrfs-convert: ok" ELSE "btrfs-convert: failed">>

InitConvert ==
    /\ \E d \in ConvertDevices :
          job = [pc |-> "start", device |-> d, mounted |-> d.mountpoint # "not mounted",
                 trace |-> <<>>]
    /\ detected = <<>>
    /\ probe = NoProbe
    /\ file = JsonFile(<<>>)
    /\ clock = 0
    /\ plugged = {}
    /\ pc = "menu"
    /\ known = <<>>
    /\ cand = <<>>
    /\ sel = <<>>
    /\ scanAt = 0
    /\ scanOk = TRUE
    /\ view = <<>>
    /\ ret = NoRet
    /\ calls = <<>>
    /\ procs = [p \in Procs |-> IdleProc]

\* convertToBtrfs up to 'Do you have a backup of this data?'
ConvertStart ==
    /\ job.pc = "start"
    /\ job' =
         IF ~job.device.available
         THEN [job EXCEPT !.pc = "returned", !.trace = <<"which btrfs-convert: failed">>]
         ELSE IF ~job.device.lsblkOk
         THEN [job EXCEPT !.pc = "threw",
                          !.trace = <<"which btrfs-convert: ok", "lsblk: failed">>]
         ELSE IF job.device.fstype \notin {"ext2", "ext3", "ext4"}
         THEN [job EXCEPT !.pc = "returned",
                          !.trace = <<"which btrfs-convert: ok", "lsblk: ok",
                                      "fstype: unsupported">>]
         ELSE IF job.device.mountpoint = "/"
         THEN [job EXCEPT !.pc = "returned",
                          !.trace = <<"which btrfs-convert: ok", "lsblk: ok",
                                      "fstype: ext", "mountpoint: root">>]
         ELSE [job EXCEPT !.pc = "confirm1",
                          !.trace = <<"which btrfs-convert: ok", "lsblk: ok",
                                      "fstype: ext", "mountpoint: not root">>]
    /\ UNCHANGED toolLocals

\* the answer to 'Do you have a backup of this data?'
ConvertConfirm1(confirm1) ==
    /\ job.pc = "confirm1"
    /\ job' = IF confirm1
              THEN [job EXCEPT !.pc = "confirm2", !.trace = Append(@, "confirm1: yes")]
              ELSE [job EXCEPT !.pc = "returned", !.trace = Append(@, "confirm1: no")]
    /\ UNCHANGED toolLocals

\* the answer to 'Convert <device> from <fstype> to BTRFS?', and the try block
ConvertConfirm2(confirm2, umountOk, fsckOk, convertOk) ==
    /\ job.pc = "confirm2"
    /\ job' = IF confirm2
              THEN [job EXCEPT
                      !.pc = "returned",
                      !.mounted = job.mounted /\ ~umountOk,
                      !.trace = @ \o <<"confirm2: yes">>
                                  \o TryConvert(job.device.fstype, job.mounted, umountOk,
                                                fsckOk, convertOk)]
              ELSE [job EXCEPT !.pc = "returned", !.trace = Append(@, "confirm2: no")]
    /\ UNCHANGED toolLocals

NextConvert ==
    \/ ConvertStart
    \/ \E c \in BOOLEAN : ConvertConfirm1(c)
    \/ \E c, u, f, b \in BOOLEAN : ConvertConfirm2(c, u, f, b)

SpecConvert == InitConvert /\ [][NextConvert]_vars

\* the positions of the trace holding one of the events
At(events) == {i \in 1..Len(job.trace) : job.trace[i] \in events}

Converts == At({"btrfs-convert: ok", "btrfs-convert: failed"})

\* some position of each set, in increasing order, all before k
InOrderBefore(k, sets) ==
    \E pos \in [1..Len(sets) -> 1..Len(job.trace)] :
       /\ \A n \in 1..Len(sets) : pos[n] \in sets[n] /\ pos[n] < k
       /\ \A n \in 1..(Len(sets) - 1) : pos[n] < pos[n + 1]

\* C28: btrfs-convert is run at most once, and only after, in this order, the
\* type was found to be ext2/ext3/ext4, the mountpoint was found not to be '/',
\* both confirmations were answered yes, the device was found unmounted or was
\* unmounted, and e2fsck ended without error; the device is then not mounted and
\* no check before it failed, was declined or threw.
C28_ConvertOnlyAfterChecks ==
    \A k \in Converts :
       /\ Converts = {k}
       /\ InOrderBefore(k, << At({"fstype: ext"}), At({"mountpoint: not root"}),
                              At({"confirm1: yes"}), At({"confirm2: yes"}),
                              At({"isMounted: false", "umount: ok"}),
                              At({"e2fsck -fy: ok"}) >>)
       /\ ~job.mounted
       /\ job.device.fstype \in {"ext2", "ext3", "ext4"}
       /\ job.device.mountpoint # "/"
       /\ At({"which btrfs-convert: failed", "lsblk: failed", "fstype: unsupported",
              "mountpoint: root", "confirm1: no", "confirm2: no", "umount: failed",
              "e2fsck -fy: failed", "fsck: unsupported"}) = {}

\* the conversion ran on a device that was mounted and had to be unmounted first
C28_Witness ==
    /\ job.pc = "returned"
    /\ job.device.mountpoint = "/mnt/usb"
    /\ At({"umount: ok"}) # {}
    /\ At({"btrfs-convert: ok"}) # {}

(***************************************************************************)
(* backup.js cloneDriveWithResize and restoreDrive, with performClone and  *)
(* performRestore of index.js that call them.  SpecClone runs one of the   *)
(* two from its first prompt; job.ran lists the commands run, in order.    *)
(***************************************************************************)
\* a scanned node with the size blockdev --getsize64 gives for it
SizedNode(name, type, bytes) ==
    [name |-> name, type |-> type, device |-> "/dev/" \o name, bytes |-> bytes]

CloneScans ==
    { <<SizedNode("sda", "disk", 2), SizedNode("sda1", "part", 2)>>,
      <<SizedNode("sda", "disk", 2), SizedNode("sda1", "part", 2),
        SizedNode("sdb", "disk", 2), SizedNode("sdb1", "part", 2),
        SizedNode("sdc", "disk", 1)>> }

\* detected.filter(d => d.type === 'disk')
Disks(nodes) == SelectSeq(nodes, LAMBDA d : d.type = "disk")

\* disks.filter(d => d.device !== sourceDisk.device)
TargetDisks(nodes, sourceDisk) == SelectSeq(Disks(nodes), LAMBDA d : d.device # sourceDisk.device)

\* what the user types at a 'Type "..." to confirm:' prompt
TypedTexts ==
    {"", "CLONE TO /dev/sda", "CLONE TO /dev/sdb", "CLONE TO /dev/sdc", "clone to /dev/sdb",
     "CLONE TO /dev/sdb ", "CLONE TO sdb", "DESTROY /dev/sdb1", "DESTROY /dev/sda1",
     "destroy /dev/sdb1", "DESTROY /dev/sdb", "yes"}

\* the backup paths given to performRestore
BackupPaths == {"/backups/sdb1.img", "/backups/home.tar.gz", "s3://bucket/sdb1.img.gz"}

NoDisk == SizedNode("", "none", 0)

\* the typed text is accepted whatever it is
TextMatchesAny(text, expected) == TRUE

\* confirmText !== `CLONE TO ${targetDrive}` / `DESTROY ${targetDevice}` is false
TextMatches(text, expected) == text = expected

\* the commands of the try block of cloneDriveWithResize up to the first that
\* fails (failAt, 0 when none does), for a target whose last partition is ext4
CloneCommands(sourceDrive, targetDrive, failAt) ==
    LET all == << Exec("dd of=" \o targetDrive, sourceDrive, failAt # 1),
                  Exec("partprobe", targetDrive, failAt # 2),
                  Exec("lsblk", targetDrive, failAt # 3),
                  Exec("blkid", targetDrive, TRUE),
                  Exec("parted resizepart", targetDrive, failAt # 5),
                  Exec("partprobe", targetDrive, failAt # 6),
                  Exec("e2fsck -f -y", targetDrive, failAt # 7),
                  Exec("resize2fs", targetDrive, failAt # 8) >>
    IN IF failAt = 0 THEN all ELSE SubSeq(all, 1, failAt)

\* the commands of restoreBlockLevel or restoreFilesystem, up to the failure; the
\* finally of restoreFilesystem unmounts once the target was mounted
RestoreCommands(backupPath, targetDevice, ok) ==
    IF backupPath \in {"/backups/sdb1.img", "s3://bucket/sdb1.img.gz"}
    THEN <<Exec("dd of=" \o targetDevice, backupPath, ok)>>
    ELSE <<Exec("mkfs.ext4 -F", targetDevice, TRUE), Exec("mkdir -p", targetDevice, TRUE),
           Exec("mount", targetDevice, TRUE), Exec("tar xzf", backupPath, ok),
           Exec("umount", targetDevice, TRUE), Exec("rm -rf", targetDevice, TRUE)>>

StartClone(menu) ==
    [pc |-> "start", menu |-> menu, source |-> NoDisk, target |-> NoDisk,
     backupPath |-> "", confirm1 |-> FALSE, confirmText |-> Null, ran |-> <<>>]

InitClone ==
    /\ detected \in CloneScans
    /\ job \in {StartClone("clone"), StartClone("restore")}
    /\ probe = NoProbe
    /\ file = JsonFile(<<>>)
    /\ clock = 0
    /\ plugged = {}
    /\ pc = "menu"
    /\ known = <<>>
    /\ cand = <<>>
    /\ sel = <<>>
    /\ scanAt = 0
    /\ scanOk = TRUE
    /\ view = <<>>
    /\ ret = NoRet
    /\ calls = <<>>
    /\ procs = [p \in Procs |-> IdleProc]

\* performClone up to 'Select SOURCE disk to clone FROM:'
PerformClone ==
    /\ job.pc = "start" /\ job.menu = "clone"
    /\ job' = [job EXCEPT !.pc = IF Len(Disks(detected)) < 2 THEN "returned"
                                 ELSE "source_select"]
    /\ UNCHANGED toolLocals

\* the source disk or Cancel (0) is chosen
CloneSource(i) ==
    /\ job.pc = "source_select"
    /\ i \in 0..Len(Disks(detected))
    /\ job' = IF i = 0 THEN [job EXCEPT !.pc = "returned"]
              ELSE [job EXCEPT !.pc = "target_select", !.source = Disks(detected)[i]]
    /\ UNCHANGED toolLocals

\* the target disk or Cancel (0) is chosen; cloneDriveWithResize reads the two
\* sizes (blockdev failing throws out of it) and compares them
CloneTargetDisk(j, blockdevOk) ==
    /\ job.pc = "target_select"
    /\ j \in 0..Len(TargetDisks(detected, job.source))
    /\ job' = IF j = 0 THEN [job EXCEPT !.pc = "returned"]
              ELSE LET targetDisk == TargetDisks(detected, job.source)[j] IN
                   [job EXCEPT
                      !.pc = IF ~blockdevOk THEN "threw"
                             ELSE IF targetDisk.bytes < job.source.bytes THEN "returned"
                             ELSE "clone_confirm1",
                      !.target = targetDisk,
                      !.ran = <<Exec("blockdev --getsize64", job.source.device, blockdevOk)>>
                              \o (IF blockdevOk
                                  THEN <<Exec("blockdev --getsize64", targetDisk.device, TRUE)>>
                                  ELSE <<>>)]
    /\ UNCHANGED toolLocals

\* the answer to 'Proceed with clone operation?'
CloneProceed(confirm1) ==
    /\ job.pc = "clone_confirm1"
    /\ job' = [job EXCEPT !.pc = IF confirm1 THEN "clone_text" ELSE "returned",
                          !.confirm1 = confirm1]
    /\ UNCHANGED toolLocals

\* the text typed at 'Type "CLONE TO <target>" to confirm:', and the try block
CloneText(confirmText, failAt) ==
    /\ job.pc = "clone_text"
    /\ job' = [job EXCEPT
                 !.pc = "returned",
                 !.confirmText = confirmText,
                 !.ran = IF TextMatches(confirmText, "CLONE TO " \o job.target.device)
                         THEN @ \o CloneCommands(job.source.device, job.target.device, failAt)
                         ELSE @]
    /\ UNCHANGED toolLocals

\* performRestore up to 'Select TARGET partition': the source type (S3 is taken as
\* configured) and the path are given, the scan is taken
PerformRestore(backupPath) ==
    /\ job.pc = "start" /\ job.menu = "restore"
    /\ job' = [job EXCEPT !.pc = "restore_target", !.backupPath = backupPath]
    /\ UNCHANGED toolLocals

\* performRestore: 'Cancel' at the first prompt
RestoreCancel ==
    /\ job.pc = "start" /\ job.menu = "restore"
    /\ job' = [job EXCEPT !.pc = "returned"]
    /\ UNCHANGED toolLocals

\* the target partition or Cancel (0) is chosen: restoreDrive shows its warning
RestoreTarget(i) ==
    /\ job.pc = "restore_target"
    /\ i \in 0..Len(Partitions(detected))
    /\ job' = IF i = 0 THEN [job EXCEPT !.pc = "returned"]
              ELSE [job EXCEPT !.pc = "restore_confirm1", !.target = Partitions(detected)[i]]
    /\ UNCHANGED toolLocals

\* the answer to 'Are you absolutely sure?'
RestoreSure(confirm1) ==
    /\ job.pc = "restore_confirm1"
    /\ job' = [job EXCEPT !.pc = IF confirm1 THEN "restore_text" ELSE "returned",
                          !.confirm1 = confirm1]
    /\ UNCHANGED toolLocals

\* the text typed at 'Type "DESTROY <target>" to confirm:', and the restore
RestoreText(confirmText, ok) ==
    /\ job.pc = "restore_text"
    /\ job' = [job EXCEPT
                 !.pc = "returned",
                 !.confirmText = confirmText,
                 !.ran = IF TextMatches(confirmText, "DESTROY " \o job.target.device)
                         THEN RestoreCommands(job.backupPath, job.target.device, ok)
                         ELSE <<>>]
    /\ UNCHANGED toolLocals

NextClone ==
    \/ PerformClone
    \/ \E i \in 0..3 : CloneSource(i)
    \/ \E j \in 0..2, ok \in BOOLEAN : CloneTargetDisk(j, ok)
    \/ \E c \in BOOLEAN : CloneProceed(c)
    \/ \E t \in TypedTexts, failAt \in {0, 1, 2, 3, 5, 6, 7, 8} : CloneText(t, failAt)
    \/ \E b \in BackupPaths : PerformRestore(b)
    \/ RestoreCancel
    \/ \E i \in 0..2 : RestoreTarget(i)
    \/ \E c \in BOOLEAN : RestoreSure(c)
    \/ \E t \in TypedTexts, ok \in BOOLEAN : RestoreText(t, ok)

SpecClone == InitClone /\ [][NextClone]_vars

\* a command that writes to a device was run
WroteTo(device) ==
    \E i \in 1..Len(job.ran) :
       \/ job.ran[i].cmd = "dd of=" \o device
       \/ /\ job.ran[i].device = device
          /\ job.ran[i].cmd \in {"mkfs.ext4 -F", "parted resizepart", "e2fsck -f -y",
                                 "resize2fs", "tar xzf", "partprobe"}

\* C29: the clone flow has written to a disk only if that disk is the chosen
\* target, differs from the source, is at least as large as the source, the
\* first confirmation was affirmative and the typed text is exactly
\* "CLONE TO <target device>", and it never writes to the source; the restore
\* flow has written to a partition only if it is the chosen target, the
\* confirmation was affirmative and the typed text is exactly
\* "DESTROY <target device>".
C29_WritesOnlyAfterTypedConfirmation ==
    \A i \in 1..Len(detected) :
       WroteTo(detected[i].device) =>
          /\ detected[i].device = job.target.device
          /\ job.confirm1
          /\ job.menu = "clone" =>
                /\ job.target.device # job.source.device
                /\ job.target.bytes >= job.source.bytes
                /\ job.confirmText = "CLONE TO " \o job.target.device
          /\ job.menu = "restore" =>
                job.confirmText = "DESTROY " \o job.target.device

\* the clone was written to a target as large as the source
C29_Witness ==
    /\ job.menu = "clone"
    /\ job.pc = "returned"
    /\ job.source.device = "/dev/sda"
    /\ WroteTo("/dev/sdb")
    /\ Len(job.ran) = 10

=============================================================================
